---- MODULE Spec2Model ----
(***************************************************************************)
(* Model of the NextBus departure board: the arrival reconciliation of     *)
(* TransitBoard.processStopData / getCombinedArrivals, the extracted hook  *)
(* useStopProcessing, the route pairing service and the timestamp          *)
(* utilities, applied to snapshots, stop lists and pairing tables drawn    *)
(* from bounded input sets, with time passing between renders.             *)
(*                                                                         *)
(* Strings are TLA+ strings; the regular-expression tests of the source    *)
(* work on their characters, which Chars gives.  Times are milliseconds    *)
(* counted from local midnight of the day the board was opened, so that    *)
(* two days of service fit the integers of the model checker.              *)
(***************************************************************************)
EXTENDS Integers, Sequences, FiniteSets, TLC

VARIABLES
  routePairs,          \* ROUTE_PAIRS, the configured pairing table
  staticData,          \* SWR data of /api/gtfs-static (loaded = FALSE: none)
  parsedRealtimeData,  \* the decoded feed (present = FALSE: none)
  stopCodes,           \* TransitBoard prop stopCodes
  stopNames,           \* TransitBoard prop stopNames
  now,                 \* Date.now()
  procNow,             \* Date.now() as read by the memoized per-stop processing
  processedStops,      \* useMemo: stopCodes.map(processStopData)
  renderNow,           \* Date.now() as read by the last getCombinedArrivals()
  combinedArrivals,    \* result of getCombinedArrivals() at the last render
  hookStops,           \* useStopProcessing: processStop(sc) for each stop code
  hookCombined,        \* useStopProcessing: combinedArrivals
  connectionError,     \* TransitBoard state connectionError ("none": null)
  newStopCode,         \* Home state newStopCode, the text of the input field
  debouncedStopCode,   \* useDebounce(newStopCode, DEBOUNCE_DELAY)
  savedConfigs,        \* Home state savedConfigs
  pendingEffect,       \* the auto-add effect of the last commit that has not run yet
  realtimeCache,       \* TripUpdates route: realtimeCache (present = FALSE: null)
  requests,            \* TripUpdates route: the now of each GET awaiting the upstream
  response             \* TripUpdates route: the last response sent

\* the state of the API route /api/gtfs/TripUpdates
serverVars == <<realtimeCache, requests, response>>

\* the state outside the reconciliation: the error banner, the page's form and
\* the server
shellVars == <<connectionError, newStopCode, debouncedStopCode, savedConfigs, pendingEffect,
               serverVars>>

vars == <<routePairs, staticData, parsedRealtimeData, stopCodes, stopNames, now,
          procNow, processedStops, renderNow, combinedArrivals, hookStops, hookCombined,
          shellVars>>

-----------------------------------------------------------------------------
(* Bounds of the model *)

MaxStopTimes == 2
MaxEntities == 2
MaxTicks == 1

-----------------------------------------------------------------------------
(* Program constants *)

MAX_ARRIVALS_WINDOW == 60
MsPerMinute == 60000
MsPerSecond == 1000
MsPerHour == 3600000
MsPerDay == 86400000
\* 0x100000000 in extractTimestamp, scaled to 2^20 so that seconds * 1000
\* stays inside the 32-bit integers of the model checker
LongBase == 1048576

Undefined == "undefined"

-----------------------------------------------------------------------------
(* Characters of the strings the model uses *)

Chars(s) ==
  CASE s = "8A" -> <<"8", "A">>
    [] s = "8B" -> <<"8", "B">>
    [] s = "400" -> <<"4", "0", "0">>
    [] s = "2A" -> <<"2", "A">>
    [] s = "1" -> <<"1">>
    [] s = "to Georgian College" -> <<"t", "o", " ", "G", "e", "o", "r", "g", "i", "a", "n", " ", "C", "o", "l", "l", "e", "g", "e">>
    [] s = "to Park Place" -> <<"t", "o", " ", "P", "a", "r", "k", " ", "P", "l", "a", "c", "e">>
    [] s = "Loop" -> <<"L", "o", "o", "p">>
    [] s = "Unknown Destination" -> <<"U", "n", "k", "n", "o", "w", "n", " ", "D", "e", "s", "t", "i", "n", "a", "t", "i", "o", "n">>
    [] s = "Unknown" -> <<"U", "n", "k", "n", "o", "w", "n">>
    [] s = "" -> <<>>
    [] s = "R8A" -> <<"R", "8", "A">>
    [] s = "R8B" -> <<"R", "8", "B">>
    [] s = "R400" -> <<"R", "4", "0", "0">>
    [] s = "R2A" -> <<"R", "2", "A">>
    [] s = "R1" -> <<"R", "1">>
    [] s = "RX" -> <<"R", "X">>
    [] s = "to Downtown Barrie Terminal" -> <<"t", "o", " ", "D", "o", "w", "n", "t", "o", "w", "n", " ", "B", "a", "r", "r", "i", "e", " ", "T", "e", "r", "m", "i", "n", "a", "l">>
    [] s = "Georgian Mall" -> <<"G", "e", "o", "r", "g", "i", "a", "n", " ", "M", "a", "l", "l">>
    [] s = "Southbound" -> <<"S", "o", "u", "t", "h", "b", "o", "u", "n", "d">>
    [] s = "North via Park Place" -> <<"N", "o", "r", "t", "h", " ", "v", "i", "a", " ", "P", "a", "r", "k", " ", "P", "l", "a", "c", "e">>
    [] s = "to Park Place via to Georgian College" -> <<"t", "o", " ", "P", "a", "r", "k", " ", "P", "l", "a", "c", "e", " ", "v", "i", "a", " ", "t", "o", " ", "G", "e", "o", "r", "g", "i", "a", "n", " ", "C", "o", "l", "l", "e", "g", "e">>
    [] s = "2B" -> <<"2", "B">>
    [] s = "10" -> <<"1", "0">>
    [] s = "A1" -> <<"A", "1">>
    [] s = "AB" -> <<"A", "B">>
    [] s = "Bay" -> <<"B", "a", "y">>
    [] s = "RT" -> <<"R", "T">>
PatToGeorgianCollege == <<"t", "o", " ", "g", "e", "o", "r", "g", "i", "a", "n", " ", "c", "o", "l", "l", "e", "g", "e">>
PatToParkPlace == <<"t", "o", " ", "p", "a", "r", "k", " ", "p", "l", "a", "c", "e">>
PatToDowntownBarrieTerminal == <<"t", "o", " ", "d", "o", "w", "n", "t", "o", "w", "n", " ", "b", "a", "r", "r", "i", "e", " ", "t", "e", "r", "m", "i", "n", "a", "l">>
PatNorth == <<"n", "o", "r", "t", "h">>
PatGeorgianMall == <<"g", "e", "o", "r", "g", "i", "a", "n", " ", "m", "a", "l", "l">>
PatSouth == <<"s", "o", "u", "t", "h">>
PatParkPlace == <<"p", "a", "r", "k", " ", "p", "l", "a", "c", "e">>
PatDowntownBarrieTerminal == <<"d", "o", "w", "n", "t", "o", "w", "n", " ", "b", "a", "r", "r", "i", "e", " ", "t", "e", "r", "m", "i", "n", "a", "l">>
ToLowerCase(c) ==
  CASE c = "A" -> "a"
    [] c = "B" -> "b"
    [] c = "C" -> "c"
    [] c = "D" -> "d"
    [] c = "E" -> "e"
    [] c = "F" -> "f"
    [] c = "G" -> "g"
    [] c = "H" -> "h"
    [] c = "I" -> "i"
    [] c = "J" -> "j"
    [] c = "K" -> "k"
    [] c = "L" -> "l"
    [] c = "M" -> "m"
    [] c = "N" -> "n"
    [] c = "O" -> "o"
    [] c = "P" -> "p"
    [] c = "Q" -> "q"
    [] c = "R" -> "r"
    [] c = "S" -> "s"
    [] c = "T" -> "t"
    [] c = "U" -> "u"
    [] c = "V" -> "v"
    [] c = "W" -> "w"
    [] c = "X" -> "x"
    [] c = "Y" -> "y"
    [] c = "Z" -> "z"
    [] OTHER -> c


-----------------------------------------------------------------------------
(* String helpers: RegExp.prototype.test with the i flag is a              *)
(* case-insensitive substring search                                       *)

Lower(cs) == [i \in 1..Len(cs) |-> ToLowerCase(cs[i])]

Contains(cs, pat) ==
  \E i \in 0..(Len(cs) - Len(pat)) :
    \A j \in 1..Len(pat) : cs[i + j] = pat[j]

\* the strings and the patterns the inputs of the model are matched against
Texts ==
  {"8A", "8B", "400", "2A", "1", "to Georgian College", "to Park Place", "Loop",
   "Unknown Destination", "Unknown", "", "R8A", "R8B", "R400", "R2A", "R1", "RX",
   "to Downtown Barrie Terminal", "Georgian Mall", "Southbound", "North via Park Place",
   "to Park Place via to Georgian College", "2B", "10", "A1", "AB", "Bay", "RT"}
Patterns ==
  {PatToGeorgianCollege, PatToParkPlace, PatToDowntownBarrieTerminal, PatNorth,
   PatGeorgianMall, PatSouth, PatParkPlace, PatDowntownBarrieTerminal, <<"a">>, <<"b">>}

\* the matches, computed once
TestTable == [s \in Texts, pat \in Patterns |-> Contains(Lower(Chars(s)), pat)]

\* /<pat>/i.test(s)
TestI(s, pat) == TestTable[s, pat]

\* String.prototype.includes (case-sensitive)
Includes(s, c) == \E i \in 1..Len(Chars(s)) : Chars(s)[i] = c

\* /<c>$/i.test(s)
EndsWithI(s, c) ==
  LET cs == Lower(Chars(s)) IN Len(cs) > 0 /\ cs[Len(cs)] = c

-----------------------------------------------------------------------------
(* Sequence helpers *)

RECURSIVE Flatten(_)
Flatten(ss) == IF ss = <<>> THEN <<>> ELSE Head(ss) \o Flatten(Tail(ss))

MinOf(S) == CHOOSE x \in S : \A y \in S : x <= y

\* Array.prototype.find: the first of the indexes whose element satisfies the
\* test (hits), 0 when there is none
FindIndex(hits) == IF hits = {} THEN 0 ELSE MinOf(hits)

\* the sub-sequences of pool with at most n elements, order kept
RECURSIVE Pick(_, _)
Pick(pool, idx) ==
  IF idx = {} THEN <<>>
  ELSE LET i == MinOf(idx) IN <<pool[i]>> \o Pick(pool, idx \ {i})

SubSeqs(pool, n) ==
  {Pick(pool, idx) : idx \in {s \in SUBSET (1..Len(pool)) : Cardinality(s) <= n}}

-----------------------------------------------------------------------------
(* Date arithmetic (local time, no daylight-saving change in the model)    *)

DayStart(t) == (t \div MsPerDay) * MsPerDay

\* Date.prototype.setHours(h, m, s, 0): out-of-range hours roll the date
setHours(t, h, m, s) == DayStart(t) + h * MsPerHour + m * MsPerMinute + s * MsPerSecond

\* d.setDate(d.getDate() + 1)
AddDay(t) == t + MsPerDay

\* the arrivalTime of a row built from a time that is not a number
NaN == -999999999
IsNaN(x) == x = NaN

\* a < b on JavaScript numbers
JsLess(a, b) == ~IsNaN(a) /\ ~IsNaN(b) /\ a < b

\* Math.floor((t - now) / (1000 * 60))
MinutesUntil(t, nowMs) == (t - nowMs) \div MsPerMinute

InWindow(t, nowMs) ==
  /\ MinutesUntil(t, nowMs) >= -1
  /\ MinutesUntil(t, nowMs) <= MAX_ARRIVALS_WINDOW

-----------------------------------------------------------------------------
(* GTFSTimestamp: a number, a plain {low, high} object, a Long instance     *)
(* (an object whose string conversion is its decimal value), or absent      *)

NumTs(n) == [kind |-> "number", low |-> n, high |-> 0]
PairTs(lo, hi) == [kind |-> "pair", low |-> lo, high |-> hi]
LongTs(lo, hi) == [kind |-> "long", low |-> lo, high |-> hi]
NoTs == [kind |-> "none", low |-> 0, high |-> 0]

\* JavaScript truthiness of a time field
Truthy(ts) == ts.kind \in {"pair", "long"} \/ (ts.kind = "number" /\ ts.low # 0)

\* a || b
OrElse(a, b) == IF Truthy(a) THEN a ELSE b

\* ts * 1000 is a number for a number and for a Long instance (through its
\* toString), NaN for a plain object
TimesIsNumber(ts) == ts.kind \in {"number", "long"}
NumericValue(ts) == ts.low + ts.high * LongBase

extractTimestampThrows(ts) == ts.kind = "none"
extractTimestamp(ts) ==
  IF ts.kind = "number" THEN ts.low
  ELSE ts.low + ts.high * LongBase

\* Math.floor((now - timestamp * 1000) / 60000), 0 when extraction throws
calculateDataAge(ts, nowMs) ==
  IF extractTimestampThrows(ts) THEN 0
  ELSE (nowMs - extractTimestamp(ts) * MsPerSecond) \div MsPerMinute

-----------------------------------------------------------------------------
(* Array.prototype.sort with a comparator, as a stable insertion sort.     *)
(* For a consistent comparator this is the one result the language allows; *)
(* a comparator that returns NaN counts as 0 (SortCompare), and the order  *)
(* is then one of the orders an engine may produce.                        *)

\* sorted holds indexes of the array, x is the index to insert, cmp[i][j] is
\* the comparator applied to the elements i and j
InsertSorted(sorted, x, cmp) ==
  LET notAfter == {j \in 1..Len(sorted) : cmp[sorted[j]][x] <= 0}
      pos == IF notAfter = {} THEN 0 ELSE CHOOSE j \in notAfter : \A k \in notAfter : k <= j
  IN SubSeq(sorted, 1, pos) \o <<x>> \o SubSeq(sorted, pos + 1, Len(sorted))

SortWith(s, cmp) ==
  LET sortedPrefix[i \in 0..Len(s)] ==
        IF i = 0 THEN <<>> ELSE InsertSorted(sortedPrefix[i - 1], i, cmp)
      order == sortedPrefix[Len(s)]
  IN [k \in 1..Len(s) |-> s[order[k]]]

-----------------------------------------------------------------------------
(* Direction inference *)

\* TransitBoard.tsx infer8Direction
infer8Direction(routeId, headsign) ==
  IF routeId \in {"8A", "8B"} /\ TestI(headsign, PatToGeorgianCollege) THEN "northbound"
  ELSE IF routeId \in {"8A", "8B"}
          /\ (TestI(headsign, PatToParkPlace) \/ TestI(headsign, PatToDowntownBarrieTerminal))
    THEN "southbound"
  ELSE IF routeId = "400" /\ (TestI(headsign, PatNorth) \/ TestI(headsign, PatGeorgianMall))
    THEN "northbound"
  ELSE IF routeId = "400"
          /\ (TestI(headsign, PatSouth) \/ TestI(headsign, PatParkPlace)
              \/ TestI(headsign, PatDowntownBarrieTerminal))
    THEN "southbound"
  ELSE Undefined

\* the direction block of processStopData (static and real-time rows alike)
boardDirection(readableRouteNumber, headsign) ==
  IF readableRouteNumber = "8A" \/ readableRouteNumber = "8B"
    THEN infer8Direction(readableRouteNumber, headsign)
  ELSE IF readableRouteNumber = "400"
    THEN infer8Direction(readableRouteNumber, headsign)
  ELSE IF TestI(readableRouteNumber, <<"a">>) THEN "northbound"
  ELSE IF TestI(readableRouteNumber, <<"b">>) THEN "southbound"
  ELSE Undefined

\* usePairedRoutes.ts inferDirection (imported by the hook as infer8Direction)
inferDirection(routeId, headsign) ==
  IF routeId \in {"8A", "8B"} /\ TestI(headsign, PatToGeorgianCollege) THEN "northbound"
  ELSE IF routeId \in {"8A", "8B"}
          /\ (TestI(headsign, PatToParkPlace) \/ TestI(headsign, PatToDowntownBarrieTerminal))
    THEN "southbound"
  ELSE IF routeId = "400" /\ (TestI(headsign, PatNorth) \/ TestI(headsign, PatGeorgianMall))
    THEN "northbound"
  ELSE IF routeId = "400"
          /\ (TestI(headsign, PatSouth) \/ TestI(headsign, PatParkPlace)
              \/ TestI(headsign, PatDowntownBarrieTerminal))
    THEN "southbound"
  ELSE IF EndsWithI(routeId, "a") \/ Includes(routeId, "A") THEN "northbound"
  ELSE IF EndsWithI(routeId, "b") \/ Includes(routeId, "B") THEN "southbound"
  ELSE Undefined

\* the direction block of useStopProcessing.processStop
hookDirection(routeShort, headsign) ==
  IF routeShort = "8A" \/ routeShort = "8B" THEN inferDirection(routeShort, headsign)
  ELSE IF routeShort = "400" THEN inferDirection(routeShort, headsign)
  ELSE IF TestI(routeShort, <<"a">>) THEN "northbound"
  ELSE IF TestI(routeShort, <<"b">>) THEN "southbound"
  ELSE Undefined

-----------------------------------------------------------------------------
(* Route pairing service *)

\* a variant that pairs 8A and 8B whatever the table holds
findPairedRouteBuiltIn(pairs, routeId) ==
  IF routeId = "8A" THEN "8B"
  ELSE IF routeId = "8B" THEN "8A"
  ELSE IF routeId \in DOMAIN pairs THEN pairs[routeId] ELSE Undefined

\* ROUTE_PAIRS[routeId]; undefined for a route that is not a key
findPairedRoute(pairs, routeId) ==
  IF routeId \in DOMAIN pairs THEN pairs[routeId] ELSE Undefined

\* "Pairing disabled - always return undefined"; the result is a sequence
\* holding the estimate, empty for undefined
generatePairedEstimate(staticArrival, realtimeArrivals) == <<>>

-----------------------------------------------------------------------------
(* Lookups in the static tables *)

FindStop(sd, stopCode) ==
  FindIndex({i \in 1..Len(sd.stops) : sd.stops[i].stop_code = stopCode})
FindTrip(sd, tripId) ==
  FindIndex({i \in 1..Len(sd.trips) : sd.trips[i].trip_id = tripId})
FindRoute(sd, routeId) ==
  FindIndex({i \in 1..Len(sd.routes) : sd.routes[i].route_id = routeId})

\* a || b on strings
StrOr(a, b) == IF a # "" /\ a # Undefined THEN a ELSE b

\* routeInfo?.route_short_name || fallback
RouteShortName(sd, routeId) ==
  LET r == FindRoute(sd, routeId)
  IN IF r = 0 THEN routeId ELSE StrOr(sd.routes[r].route_short_name, routeId)

\* stopNames[stopCode] || stopInfo.stop_name || 'Unknown Stop'
StopNameOf(names, stopInfo, stopCode) ==
  StrOr(IF stopCode \in DOMAIN names THEN names[stopCode] ELSE Undefined,
        StrOr(stopInfo.stop_name, "Unknown Stop"))

-----------------------------------------------------------------------------
(* TransitBoard.processStopData: the two candidate lists *)

\* variant: a stop_time whose trip is not in trips is shown with fallbacks
boardStaticRowLenient(sd, stopTime, stopCode, stopName, nowMs) ==
  LET timeStr == IF stopTime.arrival_time # <<>> THEN stopTime.arrival_time
                 ELSE stopTime.departure_time
      set1 == setHours(nowMs, timeStr[1], timeStr[2], timeStr[3])
      scheduledTime == IF set1 < nowMs THEN AddDay(set1) ELSE set1
  IN IF timeStr = <<>> THEN <<>>
     ELSE IF ~InWindow(scheduledTime, nowMs) THEN <<>>
     ELSE << [routeId |-> "Unknown",
              tripId |-> "Unknown Destination",
              arrivalTime |-> scheduledTime,
              delay |-> 0,
              stopCode |-> stopCode,
              stopName |-> stopName,
              platform |-> StrOr(stopTime.platform_code, Undefined),
              isRealtime |-> FALSE,
              gtfsTripId |-> stopTime.trip_id,
              direction |-> Undefined,
              pairedEstimate |-> FALSE] >>

\* a variant that leaves a schedule time already in the past on the day it has
boardStaticRowToday(sd, stopTime, stopCode, stopName, nowMs) ==
  LET t == FindTrip(sd, stopTime.trip_id)
      tripInfo == sd.trips[t]
      readableRouteNumber == RouteShortName(sd, tripInfo.route_id)
      headsign == StrOr(tripInfo.trip_headsign, "Unknown Destination")
      timeStr == IF stopTime.arrival_time # <<>> THEN stopTime.arrival_time
                 ELSE stopTime.departure_time
      hours == timeStr[1]
      minutes == timeStr[2]
      seconds == timeStr[3]
      set1 == setHours(nowMs, hours, minutes, seconds)
      set2 == IF hours >= 24
                THEN AddDay(setHours(set1, hours - 24, minutes, seconds))
                ELSE set1
      scheduledTime == set2
  IN IF t = 0 \/ timeStr = <<>> THEN <<>>
     ELSE IF ~InWindow(scheduledTime, nowMs) THEN <<>>
     ELSE << [routeId |-> readableRouteNumber,
              tripId |-> headsign,
              arrivalTime |-> scheduledTime,
              delay |-> 0,
              stopCode |-> stopCode,
              stopName |-> stopName,
              platform |-> StrOr(stopTime.platform_code, Undefined),
              isRealtime |-> FALSE,
              gtfsTripId |-> tripInfo.trip_id,
              direction |-> boardDirection(readableRouteNumber, headsign),
              pairedEstimate |-> FALSE] >>

\* one stop_time row: the static arrival it yields, if any
boardStaticRow(sd, stopTime, stopCode, stopName, nowMs) ==
  LET t == FindTrip(sd, stopTime.trip_id)
      tripInfo == sd.trips[t]
      readableRouteNumber == RouteShortName(sd, tripInfo.route_id)
      headsign == StrOr(tripInfo.trip_headsign, "Unknown Destination")
      timeStr == IF stopTime.arrival_time # <<>> THEN stopTime.arrival_time
                 ELSE stopTime.departure_time
      hours == timeStr[1]
      minutes == timeStr[2]
      seconds == timeStr[3]
      set1 == setHours(nowMs, hours, minutes, seconds)
      set2 == IF hours >= 24
                THEN AddDay(setHours(set1, hours - 24, minutes, seconds))
                ELSE set1
      scheduledTime == IF set2 < nowMs THEN AddDay(set2) ELSE set2
  IN IF t = 0 \/ timeStr = <<>> THEN <<>>
     ELSE IF ~InWindow(scheduledTime, nowMs) THEN <<>>
     ELSE << [routeId |-> readableRouteNumber,
              tripId |-> headsign,
              arrivalTime |-> scheduledTime,
              delay |-> 0,
              stopCode |-> stopCode,
              stopName |-> stopName,
              platform |-> StrOr(stopTime.platform_code, Undefined),
              isRealtime |-> FALSE,
              gtfsTripId |-> tripInfo.trip_id,
              direction |-> boardDirection(readableRouteNumber, headsign),
              pairedEstimate |-> FALSE] >>

boardStaticArrivals(sd, names, stopCode, nowMs) ==
  LET stopInfo == sd.stops[FindStop(sd, stopCode)]
      stopName == StopNameOf(names, stopInfo, stopCode)
      stopTimes == SelectSeq(sd.stopTimes, LAMBDA st : st.stop_id = stopInfo.stop_id)
  IN Flatten([i \in 1..Len(stopTimes) |->
                boardStaticRow(sd, stopTimes[i], stopCode, stopName, nowMs)])

\* one stopTimeUpdate of one entity: the real-time arrival it yields, if any
boardRealtimeRow(sd, entity, stopUpdate, stopId, stopCode, stopName, nowMs) ==
  LET arrivalTime == OrElse(stopUpdate.arrival.time, stopUpdate.departure.time)
      arrivalTimeMs == NumericValue(arrivalTime) * MsPerSecond
      gtfsRouteId == StrOr(entity.tripUpdate.trip.routeId, "Unknown")
      gtfsTripId == StrOr(entity.tripUpdate.trip.tripId, "Unknown")
      readableRouteNumber == RouteShortName(sd, gtfsRouteId)
      t == FindTrip(sd, gtfsTripId)
      headsign == IF t = 0 THEN "Unknown Destination"
                  ELSE StrOr(sd.trips[t].trip_headsign, "Unknown Destination")
      delay == IF stopUpdate.arrival.delay # 0 THEN stopUpdate.arrival.delay
               ELSE stopUpdate.departure.delay
  IN IF stopUpdate.stopId # stopId THEN <<>>
     ELSE IF ~Truthy(arrivalTime) THEN <<>>
     \* NaN compares false with both window bounds
     ELSE IF ~TimesIsNumber(arrivalTime) THEN <<>>
     ELSE IF ~InWindow(arrivalTimeMs, nowMs) THEN <<>>
     ELSE << [routeId |-> readableRouteNumber,
              tripId |-> headsign,
              arrivalTime |-> arrivalTimeMs,
              delay |-> delay,
              stopCode |-> stopCode,
              stopName |-> stopName,
              platform |-> Undefined,
              isRealtime |-> TRUE,
              gtfsTripId |-> gtfsTripId,
              direction |-> boardDirection(readableRouteNumber, headsign),
              pairedEstimate |-> FALSE] >>

boardRealtimeArrivals(sd, feed, names, stopCode, nowMs) ==
  LET stopInfo == sd.stops[FindStop(sd, stopCode)]
      stopName == StopNameOf(names, stopInfo, stopCode)
      rowsOf(entity) ==
        Flatten([j \in 1..Len(entity.tripUpdate.stopTimeUpdate) |->
                   boardRealtimeRow(sd, entity, entity.tripUpdate.stopTimeUpdate[j],
                                    stopInfo.stop_id, stopCode, stopName, nowMs)])
  IN IF ~feed.present THEN <<>>
     ELSE Flatten([i \in 1..Len(feed.entity) |-> rowsOf(feed.entity[i])])

-----------------------------------------------------------------------------
(* The merge: grouped is a JavaScript object, modelled as the sequence of   *)
(* its entries in insertion order                                           *)

\* a variant keyed by the GTFS trip id in place of the headsign
makeKeyByTrip(a) == a.routeId \o "|" \o a.gtfsTripId \o "|" \o a.stopCode

makeKey(a) == a.routeId \o "|" \o a.tripId \o "|" \o a.stopCode

GIndex(grouped, key) == FindIndex({i \in 1..Len(grouped) : grouped[i].key = key})

\* grouped[key] = value
GSet(grouped, key, value) ==
  LET i == GIndex(grouped, key)
  IN IF i = 0 THEN Append(grouped, [key |-> key, val |-> value])
     ELSE [grouped EXCEPT ![i] = [key |-> key, val |-> value]]

\* Object.values(grouped)
GValues(grouped) == [i \in 1..Len(grouped) |-> grouped[i].val]

\* "Add all real-time arrivals first"
\* a variant that keeps the first real-time arrival of a key
RECURSIVE boardAddRealtimeFirst(_, _, _)
boardAddRealtimeFirst(grouped, realtimeArrivals, i) ==
  IF i > Len(realtimeArrivals) THEN grouped
  ELSE LET rt == realtimeArrivals[i]
           key == makeKey(rt)
           g == GIndex(grouped, key)
       IN boardAddRealtimeFirst(
            IF g = 0 THEN GSet(grouped, key, rt) ELSE grouped,
            realtimeArrivals, i + 1)

RECURSIVE boardAddRealtime(_, _, _)
boardAddRealtime(grouped, realtimeArrivals, i) ==
  IF i > Len(realtimeArrivals) THEN grouped
  ELSE LET rt == realtimeArrivals[i]
           key == makeKey(rt)
           g == GIndex(grouped, key)
       IN boardAddRealtime(
            IF g = 0 \/ rt.arrivalTime < grouped[g].val.arrivalTime
              THEN GSet(grouped, key, rt) ELSE grouped,
            realtimeArrivals, i + 1)

\* a variant in which an earlier static arrival replaces whatever the key holds
RECURSIVE boardAddStaticEarliest(_, _, _)
boardAddStaticEarliest(grouped, staticArrivals, i) ==
  IF i > Len(staticArrivals) THEN grouped
  ELSE LET st == staticArrivals[i]
           key == makeKey(st)
           g == GIndex(grouped, key)
       IN boardAddStaticEarliest(
            IF g = 0 THEN GSet(grouped, key, st)
            ELSE IF st.arrivalTime < grouped[g].val.arrivalTime THEN GSet(grouped, key, st)
            ELSE grouped,
            staticArrivals, i + 1)

\* "Add static arrivals only if not already present or if earlier than existing"
RECURSIVE boardAddStatic(_, _, _)
boardAddStatic(grouped, staticArrivals, i) ==
  IF i > Len(staticArrivals) THEN grouped
  ELSE LET st == staticArrivals[i]
           key == makeKey(st)
           g == GIndex(grouped, key)
       IN boardAddStatic(
            IF g = 0 THEN GSet(grouped, key, st)
            ELSE IF grouped[g].val.isRealtime THEN grouped
            ELSE IF st.arrivalTime < grouped[g].val.arrivalTime THEN GSet(grouped, key, st)
            ELSE grouped,
            staticArrivals, i + 1)

boardMerge(staticArrivals, realtimeArrivals) ==
  boardAddStatic(boardAddRealtime(<<>>, realtimeArrivals, 1), staticArrivals, 1)

\* a variant that takes the first real-time arrival on the paired route at the
\* stop whatever its direction
boardFindPairedAnyDirection(st, realtimeArrivals, pairRoute) ==
  FindIndex({i \in 1..Len(realtimeArrivals) :
               /\ realtimeArrivals[i].routeId = pairRoute
               /\ realtimeArrivals[i].stopCode = st.stopCode})

\* the paired arrival chosen for one static arrival (0: none)
boardFindPaired(st, realtimeArrivals, pairRoute) ==
  LET sameDirection(rt) ==
        /\ rt.routeId = pairRoute
        /\ rt.stopCode = st.stopCode
        /\ (st.direction # Undefined => rt.direction = st.direction)
      first == IF st.routeId \in {"8A", "8B", "400"} /\ st.direction # Undefined
                 THEN FindIndex({i \in 1..Len(realtimeArrivals) :
                                   sameDirection(realtimeArrivals[i])})
                 ELSE 0
  IN IF first # 0 THEN first
     ELSE FindIndex({i \in 1..Len(realtimeArrivals) : sameDirection(realtimeArrivals[i])})

\* a variant that marks the estimate and leaves isRealtime as it was
pairedArrivalUnmarked(st, paired) ==
  [st EXCEPT !.arrivalTime = paired.arrivalTime,
             !.delay = paired.delay,
             !.pairedEstimate = TRUE]

\* { ...st, arrivalTime: paired.arrivalTime, delay: paired.delay,
\*   isRealtime: true, pairedEstimate: true }
pairedArrival(st, paired) ==
  [st EXCEPT !.arrivalTime = paired.arrivalTime,
             !.delay = paired.delay,
             !.isRealtime = TRUE,
             !.pairedEstimate = TRUE]

\* a variant without the "skip if we already have a real-time arrival" test
RECURSIVE boardPairingUnguarded(_, _, _, _, _)
boardPairingUnguarded(grouped, staticArrivals, realtimeArrivals, pairs, i) ==
  IF i > Len(staticArrivals) THEN grouped
  ELSE LET st == staticArrivals[i]
           key == makeKey(st)
           pairRoute == findPairedRoute(pairs, st.routeId)
           p == boardFindPaired(st, realtimeArrivals, pairRoute)
           paired == realtimeArrivals[p]
       IN boardPairingUnguarded(
            IF pairRoute = Undefined \/ pairRoute = "" THEN grouped
            ELSE IF p = 0 THEN grouped
            ELSE GSet(grouped, key, pairedArrival(st, paired)),
            staticArrivals, realtimeArrivals, pairs, i + 1)

\* "attempt paired-route real-time estimation when a static arrival lacks
\* real-time data"
RECURSIVE boardPairing(_, _, _, _, _)
boardPairing(grouped, staticArrivals, realtimeArrivals, pairs, i) ==
  IF i > Len(staticArrivals) THEN grouped
  ELSE LET st == staticArrivals[i]
           key == makeKey(st)
           g == GIndex(grouped, key)
           pairRoute == findPairedRoute(pairs, st.routeId)
           p == boardFindPaired(st, realtimeArrivals, pairRoute)
           paired == realtimeArrivals[p]
       IN boardPairing(
            IF g # 0 /\ grouped[g].val.isRealtime THEN grouped
            ELSE IF pairRoute = Undefined \/ pairRoute = "" THEN grouped
            ELSE IF p = 0 THEN grouped
            ELSE GSet(grouped, key, pairedArrival(st, paired)),
            staticArrivals, realtimeArrivals, pairs, i + 1)

\* 'At platform' (diffMinutes -2 to 0) first, then by soonest
AtPlatform(a, nowMs) ==
  /\ a.isRealtime
  /\ ~IsNaN(a.arrivalTime)
  /\ MinutesUntil(a.arrivalTime, nowMs) >= -2
  /\ MinutesUntil(a.arrivalTime, nowMs) <= 0

platformCompare(a, b, nowMs) ==
  IF AtPlatform(a, nowMs) /\ ~AtPlatform(b, nowMs) THEN -1
  ELSE IF ~AtPlatform(a, nowMs) /\ AtPlatform(b, nowMs) THEN 1
  ELSE IF IsNaN(a.arrivalTime) \/ IsNaN(b.arrivalTime) THEN 0
  ELSE a.arrivalTime - b.arrivalTime

\* arrivals.sort(comparator above)
sortByPlatform(arrivals, nowMs) ==
  SortWith(arrivals,
           [i \in 1..Len(arrivals) |->
              [j \in 1..Len(arrivals) |-> platformCompare(arrivals[i], arrivals[j], nowMs)]])

NoError == "none"

boardGrouped(sd, feed, names, pairs, stopCode, nowMs) ==
  LET staticArrivals == boardStaticArrivals(sd, names, stopCode, nowMs)
      realtimeArrivals == boardRealtimeArrivals(sd, feed, names, stopCode, nowMs)
  IN boardPairing(boardMerge(staticArrivals, realtimeArrivals),
                  staticArrivals, realtimeArrivals, pairs, 1)

\* a table the static response came without (data.trips undefined)
Missing(sd, table) == "missingTables" \in DOMAIN sd /\ table \in sd.missingTables

\* a lookup inside the try block throws: .find is called on a missing table,
\* trips.find for every stop_time row and every real-time row of the stop,
\* routes.find for every stop_time row whose trip was found and every
\* real-time row
processingThrows(sd, feed, stopCode) ==
  LET stopId == sd.stops[FindStop(sd, stopCode)].stop_id
      stopTimes == SelectSeq(sd.stopTimes, LAMBDA st : st.stop_id = stopId)
      realtimeRow ==
        /\ feed.present
        /\ \E e \in 1..Len(feed.entity) :
             \E u \in 1..Len(feed.entity[e].tripUpdate.stopTimeUpdate) :
               LET stopUpdate == feed.entity[e].tripUpdate.stopTimeUpdate[u]
               IN /\ stopUpdate.stopId = stopId
                  /\ Truthy(OrElse(stopUpdate.arrival.time, stopUpdate.departure.time))
  IN \/ Missing(sd, "trips") /\ (Len(stopTimes) > 0 \/ realtimeRow)
     \/ /\ Missing(sd, "routes")
        /\ \/ realtimeRow
           \/ \E i \in 1..Len(stopTimes) : FindTrip(sd, stopTimes[i].trip_id) # 0

\* variant: a missing snapshot is reported as an error of the stop
processStopDataStrict(sd, feed, names, pairs, stopCode, nowMs) ==
  IF ~sd.loaded
    THEN [stopCode |-> stopCode, arrivals |-> <<>>, error |-> "No static data"]
  ELSE IF FindStop(sd, stopCode) = 0
    THEN [stopCode |-> stopCode, arrivals |-> <<>>, error |-> "Stop code not found"]
  ELSE IF processingThrows(sd, feed, stopCode)
    THEN [stopCode |-> stopCode, arrivals |-> <<>>, error |-> "Error processing stop"]
  ELSE [stopCode |-> stopCode,
        arrivals |-> sortByPlatform(
                       GValues(boardGrouped(sd, feed, names, pairs, stopCode, nowMs)), nowMs),
        error |-> IF feed.present THEN NoError ELSE "No real-time data"]

processStopData(sd, feed, names, pairs, stopCode, nowMs) ==
  IF ~sd.loaded
    THEN [stopCode |-> stopCode, arrivals |-> <<>>, error |-> NoError]
  ELSE IF FindStop(sd, stopCode) = 0
    THEN [stopCode |-> stopCode, arrivals |-> <<>>, error |-> "Stop code not found"]
  ELSE IF processingThrows(sd, feed, stopCode)
    THEN [stopCode |-> stopCode, arrivals |-> <<>>, error |-> "Error processing stop"]
  ELSE [stopCode |-> stopCode,
        arrivals |-> sortByPlatform(
                       GValues(boardGrouped(sd, feed, names, pairs, stopCode, nowMs)), nowMs),
        error |-> NoError]

\* useMemo: stopCodes.map((code) => processStopData(code))
\* variant: one try around the whole list, a failing stop empties every result
processAllFailFast(sd, feed, names, pairs, codes, nowMs) ==
  LET each == [i \in 1..Len(codes) |-> processStopData(sd, feed, names, pairs, codes[i], nowMs)]
      failed == \E i \in 1..Len(codes) : each[i].error # NoError
  IN [i \in 1..Len(codes) |->
        IF failed THEN [stopCode |-> codes[i], arrivals |-> <<>>,
                        error |-> "Error processing stop"]
                  ELSE each[i]]

processAll(sd, feed, names, pairs, codes, nowMs) ==
  [i \in 1..Len(codes) |-> processStopData(sd, feed, names, pairs, codes[i], nowMs)]

\* a variant whose window starts at minute 0
windowFilterFromZero(arrivals, nowMs) ==
  SelectSeq(arrivals, LAMBDA a : /\ InWindow(a.arrivalTime, nowMs)
                                 /\ MinutesUntil(a.arrivalTime, nowMs) >= 0)

\* the defensive window filter of getCombinedArrivals
\* variant: the aggregation does not filter again
windowFilterNone(arrivals, nowMs) == arrivals

windowFilter(arrivals, nowMs) ==
  SelectSeq(arrivals, LAMBDA a : InWindow(a.arrivalTime, nowMs))

getCombinedArrivals(processed, nowMs) ==
  sortByPlatform(
    Flatten([i \in 1..Len(processed) |-> windowFilter(processed[i].arrivals, nowMs)]), nowMs)

-----------------------------------------------------------------------------
(* useStopProcessing (the extracted hook): processStop and combinedArrivals *)

hookStaticRow(sd, st, stopCode, stopName, nowMs) ==
  LET t == FindTrip(sd, st.trip_id)
      tripInfo == sd.trips[t]
      routeShort == RouteShortName(sd, tripInfo.route_id)
      headsign == StrOr(tripInfo.trip_headsign, "Unknown")
      timeStr == IF st.arrival_time # <<>> THEN st.arrival_time ELSE st.departure_time
      h == timeStr[1]
      m == timeStr[2]
      s == timeStr[3]
      set1 == setHours(nowMs, h, m, s)
      set2 == IF h >= 24 THEN AddDay(setHours(set1, h - 24, m, s)) ELSE set1
      sched == IF set2 < nowMs THEN AddDay(set2) ELSE set2
  IN IF t = 0 \/ timeStr = <<>> THEN <<>>
     ELSE IF ~InWindow(sched, nowMs) THEN <<>>
     ELSE << [routeId |-> routeShort,
              tripId |-> headsign,
              arrivalTime |-> sched,
              delay |-> 0,
              stopCode |-> stopCode,
              stopName |-> stopName,
              platform |-> StrOr(st.platform_code, Undefined),
              isRealtime |-> FALSE,
              gtfsTripId |-> tripInfo.trip_id,
              direction |-> hookDirection(routeShort, headsign),
              pairedEstimate |-> FALSE] >>

hookStaticArrivals(sd, names, stopCode, nowMs) ==
  LET stopInfo == sd.stops[FindStop(sd, stopCode)]
      stopName == StopNameOf(names, stopInfo, stopCode)
      stopTimes == SelectSeq(sd.stopTimes, LAMBDA st : st.stop_id = stopInfo.stop_id)
  IN Flatten([i \in 1..Len(stopTimes) |->
                hookStaticRow(sd, stopTimes[i], stopCode, stopName, nowMs)])

hookRealtimeRow(sd, entity, stu, stopId, stopCode, stopName, nowMs) ==
  LET arrT == OrElse(stu.arrival.time, stu.departure.time)
      arrMs == NumericValue(arrT) * MsPerSecond
      gtfsRouteId == StrOr(entity.tripUpdate.trip.routeId, "Unknown")
      gtfsTripId == StrOr(entity.tripUpdate.trip.tripId, "Unknown")
      routeShort == RouteShortName(sd, gtfsRouteId)
      t == FindTrip(sd, gtfsTripId)
      headsign == IF t = 0 THEN "Unknown" ELSE StrOr(sd.trips[t].trip_headsign, "Unknown")
      delay == IF stu.arrival.delay # 0 THEN stu.arrival.delay ELSE stu.departure.delay
  IN IF stu.stopId # stopId THEN <<>>
     ELSE IF ~Truthy(arrT) THEN <<>>
     \* NaN: neither diff < -1 nor diff > MAX_ARRIVALS_WINDOW holds, the row
     \* is pushed with arrivalTime NaN
     ELSE IF TimesIsNumber(arrT) /\ ~InWindow(arrMs, nowMs) THEN <<>>
     ELSE << [routeId |-> routeShort,
              tripId |-> headsign,
              arrivalTime |-> IF TimesIsNumber(arrT) THEN arrMs ELSE NaN,
              delay |-> delay,
              stopCode |-> stopCode,
              stopName |-> stopName,
              platform |-> Undefined,
              isRealtime |-> TRUE,
              gtfsTripId |-> gtfsTripId,
              direction |-> hookDirection(routeShort, headsign),
              pairedEstimate |-> FALSE] >>

hookRealtimeArrivals(sd, feed, names, stopCode, nowMs) ==
  LET stopInfo == sd.stops[FindStop(sd, stopCode)]
      stopName == StopNameOf(names, stopInfo, stopCode)
      rowsOf(entity) ==
        Flatten([j \in 1..Len(entity.tripUpdate.stopTimeUpdate) |->
                   hookRealtimeRow(sd, entity, entity.tripUpdate.stopTimeUpdate[j],
                                   stopInfo.stop_id, stopCode, stopName, nowMs)])
  IN IF ~feed.present THEN <<>>
     ELSE Flatten([i \in 1..Len(feed.entity) |-> rowsOf(feed.entity[i])])

RECURSIVE hookAddRealtime(_, _, _)
hookAddRealtime(grouped, rtArr, i) ==
  IF i > Len(rtArr) THEN grouped
  ELSE LET rt == rtArr[i]
           k == makeKey(rt)
           g == GIndex(grouped, k)
       IN hookAddRealtime(
            IF g = 0 \/ JsLess(rt.arrivalTime, grouped[g].val.arrivalTime)
              THEN GSet(grouped, k, rt) ELSE grouped,
            rtArr, i + 1)

RECURSIVE hookAddStatic(_, _, _)
hookAddStatic(grouped, staticArr, i) ==
  IF i > Len(staticArr) THEN grouped
  ELSE LET st == staticArr[i]
           k == makeKey(st)
           g == GIndex(grouped, k)
       IN hookAddStatic(
            IF g = 0 \/ (~grouped[g].val.isRealtime
                         /\ JsLess(st.arrivalTime, grouped[g].val.arrivalTime))
              THEN GSet(grouped, k, st) ELSE grouped,
            staticArr, i + 1)

hookMerge(staticArr, rtArr) ==
  hookAddStatic(hookAddRealtime(<<>>, rtArr, 1), staticArr, 1)

\* the paired arrival chosen for one static arrival (0: none)
hookFindPaired(st, rtArr, pairRoute) ==
  LET opp == IF st.direction = "northbound" THEN "southbound" ELSE "northbound"
      opposite(rt) ==
        rt.routeId = pairRoute /\ rt.stopCode = st.stopCode /\ rt.direction = opp
      sameDirection(rt) ==
        /\ rt.routeId = pairRoute
        /\ rt.stopCode = st.stopCode
        /\ (st.direction # Undefined => rt.direction = st.direction)
      first == IF st.routeId \in {"8A", "8B", "400"} /\ st.direction # Undefined
                 THEN FindIndex({i \in 1..Len(rtArr) : opposite(rtArr[i])})
                 ELSE 0
  IN IF first # 0 THEN first
     ELSE FindIndex({i \in 1..Len(rtArr) : sameDirection(rtArr[i])})

RECURSIVE hookPairing(_, _, _, _, _)
hookPairing(grouped, staticArr, rtArr, pairs, i) ==
  IF i > Len(staticArr) THEN grouped
  ELSE LET st == staticArr[i]
           k == makeKey(st)
           g == GIndex(grouped, k)
           pairRoute == findPairedRoute(pairs, st.routeId)
           p == hookFindPaired(st, rtArr, pairRoute)
           paired == rtArr[p]
       IN hookPairing(
            IF g # 0 /\ grouped[g].val.isRealtime THEN grouped
            ELSE IF pairRoute = Undefined \/ pairRoute = "" THEN grouped
            ELSE IF p = 0 THEN grouped
            ELSE GSet(grouped, k,
                      [st EXCEPT !.arrivalTime = paired.arrivalTime,
                                 !.delay = paired.delay,
                                 !.isRealtime = TRUE,
                                 !.pairedEstimate = TRUE]),
            staticArr, rtArr, pairs, i + 1)

\* (a, b) => a.arrivalTime - b.arrivalTime
timeCompare(a, b) ==
  IF IsNaN(a.arrivalTime) \/ IsNaN(b.arrivalTime) THEN 0
  ELSE a.arrivalTime - b.arrivalTime

\* Object.values(grouped).sort(...)
sortByTime(arrivals) ==
  SortWith(arrivals,
           [i \in 1..Len(arrivals) |->
              [j \in 1..Len(arrivals) |-> timeCompare(arrivals[i], arrivals[j])]])

hookGrouped(sd, feed, names, pairs, stopCode, nowMs) ==
  LET staticArr == hookStaticArrivals(sd, names, stopCode, nowMs)
      rtArr == hookRealtimeArrivals(sd, feed, names, stopCode, nowMs)
  IN hookPairing(hookMerge(staticArr, rtArr), staticArr, rtArr, pairs, 1)

processStop(sd, feed, names, pairs, stopCode, nowMs) ==
  IF ~sd.loaded THEN <<>>
  ELSE IF FindStop(sd, stopCode) = 0 THEN <<>>
  ELSE sortByTime(GValues(hookGrouped(sd, feed, names, pairs, stopCode, nowMs)))

hookProcessAll(sd, feed, names, pairs, codes, nowMs) ==
  [i \in 1..Len(codes) |-> processStop(sd, feed, names, pairs, codes[i], nowMs)]

hookCombinedArrivals(perStop, nowMs) ==
  sortByPlatform(Flatten(perStop), nowMs)

-----------------------------------------------------------------------------
(* The inputs of the model: one set of static tables, the stop_times rows   *)
(* and feed entities the snapshots are drawn from                           *)

Stops == <<
  [stop_id |-> "S330", stop_code |-> "330", stop_name |-> "Georgian College"],
  [stop_id |-> "S100", stop_code |-> "100", stop_name |-> ""] >>

Routes == <<
  [route_id |-> "R8A", route_short_name |-> "8A"],
  [route_id |-> "R8B", route_short_name |-> "8B"],
  [route_id |-> "R2A", route_short_name |-> "2A"],
  [route_id |-> "R1", route_short_name |-> ""] >>

Trips == <<
  [trip_id |-> "T1", route_id |-> "R8A", trip_headsign |-> "to Georgian College"],
  [trip_id |-> "T2", route_id |-> "R8A", trip_headsign |-> "to Georgian College"],
  [trip_id |-> "T3", route_id |-> "R8B", trip_headsign |-> "to Park Place"],
  [trip_id |-> "T4", route_id |-> "R8B", trip_headsign |-> "to Georgian College"],
  [trip_id |-> "T5", route_id |-> "R2A", trip_headsign |-> "Loop"],
  [trip_id |-> "T6", route_id |-> "R1", trip_headsign |-> ""] >>

StopTime(trip, stop, arr, dep, platform) ==
  [trip_id |-> trip, stop_id |-> stop, arrival_time |-> arr, departure_time |-> dep,
   platform_code |-> platform]

\* arrival_time / departure_time "HH:MM:SS" as <<HH, MM, SS>>, "" as <<>>
StopTimePool == <<
  StopTime("T1", "S330", <<8, 10, 0>>, <<8, 10, 0>>, ""),
  StopTime("T2", "S330", <<8, 5, 0>>, <<8, 5, 0>>, ""),
  StopTime("T3", "S330", <<8, 20, 0>>, <<8, 21, 0>>, "2"),
  StopTime("T5", "S100", <<>>, <<8, 0, 30>>, ""),
  StopTime("T6", "S330", <<8, 30, 0>>, <<>>, "") >>

Event(ts, delay) == [time |-> ts, delay |-> delay]
NoEvent == [time |-> NoTs, delay |-> 0]

Update(stop, arrival, departure) ==
  [stopId |-> stop, arrival |-> arrival, departure |-> departure]

Entity(trip, route, updates) ==
  [tripUpdate |-> [trip |-> [tripId |-> trip, routeId |-> route],
                   stopTimeUpdate |-> updates]]

\* times are seconds since the model's epoch: 28800 is 08:00:00
EntityPool == <<
  Entity("T1", "R8A", <<Update("S330", Event(NumTs(29370), 60), NoEvent)>>),
  Entity("T2", "R8A", <<Update("S330", Event(NumTs(29220), 0), NoEvent),
                        Update("S100", NoEvent, Event(LongTs(28840, 0), 120))>>),
  Entity("T3", "R8B", <<Update("S330", Event(NumTs(28770), 0), NoEvent)>>),
  Entity("T4", "R8B", <<Update("S330", Event(NumTs(29700), 30), NoEvent)>>),
  Entity("T1", "R8A", <<Update("S330", Event(PairTs(29400, 0), 0), NoEvent)>>) >>

NoStatic == [loaded |-> FALSE, stops |-> <<>>, routes |-> <<>>, trips |-> <<>>,
             stopTimes |-> <<>>]

StaticSnapshots ==
  {[loaded |-> TRUE, stops |-> Stops, routes |-> Routes, trips |-> Trips, stopTimes |-> sts] :
     sts \in SubSeqs(StopTimePool, MaxStopTimes)}

NoFeed == [present |-> FALSE, header |-> [timestamp |-> NoTs], entity |-> <<>>]

Feeds ==
  {[present |-> TRUE, header |-> [timestamp |-> NumTs(28800)], entity |-> es] :
     es \in SubSeqs(EntityPool, MaxEntities)}

\* ROUTE_PAIRS as shipped, and a table with pairs configured
ROUTE_PAIRS == <<>>
ConfiguredPairs ==
  [r \in {"8A", "8B", "2A", "2B"} |->
     CASE r = "8A" -> "8B" [] r = "8B" -> "8A" [] r = "2A" -> "2B" [] r = "2B" -> "2A"]
PairTables == {ROUTE_PAIRS, ConfiguredPairs}

\* the monitored stop lists ("999" is no stop of the static tables)
StopLists == {<<"330">>, <<"330", "100">>, <<"999", "100">>}

\* the clock: 08:00:00 when the board is opened, advancing in steps
Now0 == 8 * MsPerHour
TickMs == MsPerMinute

NamesOf(stops) ==
  [c \in {stops[i].stop_code : i \in 1..Len(stops)} |->
     (CHOOSE s \in {stops[i] : i \in 1..Len(stops)} : s.stop_code = c).stop_name]

-----------------------------------------------------------------------------
\* no passive effect waiting to run
NoPending == [pending |-> FALSE, stopCodes |-> <<>>]

\* realtimeCache = null
NoCache == [present |-> FALSE, data |-> 0, timestamp |-> 0, expiresAt |-> 0]

\* no response sent yet
NoResponse == [kind |-> "none", success |-> FALSE, stale |-> FALSE, data |-> 0, at |-> 0]

\* no error banner, an empty input field, no saved configuration, a server
\* that has just started
ShellInit ==
  /\ connectionError = NoError
  /\ newStopCode = ""
  /\ debouncedStopCode = ""
  /\ savedConfigs = <<>>
  /\ pendingEffect = NoPending
  /\ realtimeCache = NoCache
  /\ requests = {}
  /\ response = NoResponse

-----------------------------------------------------------------------------
(* The state machine: the inputs are drawn from the input sets, the board  *)
(* and the hook process them, time passes, and the board renders again     *)
(* from its memoized per-stop results                                      *)

Init ==
  /\ routePairs \in PairTables
  /\ staticData \in StaticSnapshots \cup {NoStatic}
  /\ parsedRealtimeData \in Feeds \cup {NoFeed}
  /\ stopCodes \in StopLists
  /\ stopNames = NamesOf(Stops)
  /\ now = Now0
  /\ procNow = Now0
  /\ processedStops = <<>>
  /\ renderNow = Now0
  /\ combinedArrivals = <<>>
  /\ hookStops = <<>>
  /\ hookCombined = <<>>
  /\ ShellInit

\* a variant whose processing sorts the stop_times table it was given in
\* place, latest row first
ReconcileInPlace ==
  /\ procNow' = now
  /\ processedStops' = processAll(staticData, parsedRealtimeData, stopNames, routePairs,
                                  stopCodes, now)
  /\ renderNow' = now
  /\ combinedArrivals' = getCombinedArrivals(processedStops', now)
  /\ hookStops' = hookProcessAll(staticData, parsedRealtimeData, stopNames, routePairs,
                                 stopCodes, now)
  /\ hookCombined' = hookCombinedArrivals(hookStops', now)
  /\ staticData' = [staticData EXCEPT !.stopTimes =
                       [j \in 1..Len(@) |-> @[Len(@) + 1 - j]]]
  /\ UNCHANGED <<routePairs, parsedRealtimeData, stopCodes, stopNames, now, shellVars>>

\* a render in which the dependencies of processStopData changed (every
\* successful poll sets lastGlobalUpdate): processedStops and the hook's
\* memo are recomputed, then getCombinedArrivals() runs
Reconcile ==
  /\ procNow' = now
  /\ processedStops' = processAll(staticData, parsedRealtimeData, stopNames, routePairs,
                                  stopCodes, now)
  /\ renderNow' = now
  /\ combinedArrivals' = getCombinedArrivals(processedStops', now)
  /\ hookStops' = hookProcessAll(staticData, parsedRealtimeData, stopNames, routePairs,
                                 stopCodes, now)
  /\ hookCombined' = hookCombinedArrivals(hookStops', now)
  /\ UNCHANGED <<routePairs, staticData, parsedRealtimeData, stopCodes, stopNames, now,
                 shellVars>>

\* a render in which they did not change (the parent re-rendered, a poll
\* failed): only getCombinedArrivals() runs, on the memoized processedStops
Render ==
  /\ Len(processedStops) = Len(stopCodes)
  /\ renderNow' = now
  /\ combinedArrivals' = getCombinedArrivals(processedStops, now)
  /\ UNCHANGED <<routePairs, staticData, parsedRealtimeData, stopCodes, stopNames, now,
                 procNow, processedStops, hookStops, hookCombined, shellVars>>

\* time passes; nothing renders
Tick ==
  /\ now < Now0 + MaxTicks * TickMs
  /\ now' = now + TickMs
  /\ UNCHANGED <<routePairs, staticData, parsedRealtimeData, stopCodes, stopNames,
                 procNow, processedStops, renderNow, combinedArrivals, hookStops,
                 hookCombined, shellVars>>

Next == Reconcile \/ Render \/ Tick

Spec == Init /\ [][Next]_vars

-----------------------------------------------------------------------------
(* A second set of inputs, for the rows at the edge of the tables: the      *)
(* board is opened at 23:50:00, the schedule holds a trip after midnight    *)
(* and a stop_time whose trip is not in trips, the feed names trips and     *)
(* routes the static tables do not hold, and the static response may come   *)
(* without its trips table                                                  *)

NightNow == 23 * MsPerHour + 50 * MsPerMinute

NightStopTimePool == <<
  StopTime("T1", "S330", <<24, 10, 0>>, <<24, 10, 0>>, ""),
  StopTime("T2", "S330", <<23, 58, 0>>, <<23, 58, 0>>, ""),
  StopTime("TX", "S330", <<23, 55, 0>>, <<23, 55, 0>>, ""),
  StopTime("T5", "S100", <<23, 59, 0>>, <<23, 59, 0>>, "") >>

\* 85920 is 23:52:00, 86700 is 00:05:00 of the next day
NightEntityPool == <<
  Entity("TX", "RX", <<Update("S330", Event(NumTs(85920), 0), NoEvent)>>),
  Entity("T1", "RX", <<Update("S330", Event(NumTs(86700), 0), NoEvent)>>),
  Entity("", "", <<Update("S100", Event(NumTs(86000), 30), NoEvent)>>),
  Entity("T2", "R8A", <<Update("S330", Event(NumTs(86100), 0), NoEvent)>>) >>

NightSnapshots ==
  {[loaded |-> TRUE, stops |-> Stops, routes |-> Routes, trips |-> Trips, stopTimes |-> sts,
    missingTables |-> {}] : sts \in SubSeqs(NightStopTimePool, MaxStopTimes)}
    \cup
  {[loaded |-> TRUE, stops |-> Stops, routes |-> Routes, trips |-> <<>>, stopTimes |-> sts,
    missingTables |-> {"trips"}] : sts \in SubSeqs(NightStopTimePool, MaxStopTimes)}

NightFeeds ==
  {[present |-> TRUE, header |-> [timestamp |-> NumTs(85800)], entity |-> es] :
     es \in SubSeqs(NightEntityPool, MaxEntities)}

NightInit ==
  /\ routePairs \in PairTables
  /\ staticData \in NightSnapshots
  /\ parsedRealtimeData \in NightFeeds \cup {NoFeed}
  /\ stopCodes \in StopLists
  /\ stopNames = NamesOf(Stops)
  /\ now = NightNow
  /\ procNow = NightNow
  /\ processedStops = <<>>
  /\ renderNow = NightNow
  /\ combinedArrivals = <<>>
  /\ hookStops = <<>>
  /\ hookCombined = <<>>
  /\ ShellInit

\* the board alone recomputes processedStops and renders (the page mounts
\* TransitBoard, not the hook)
BoardReconcile ==
  /\ procNow' = now
  /\ processedStops' = processAll(staticData, parsedRealtimeData, stopNames, routePairs,
                                  stopCodes, now)
  /\ renderNow' = now
  /\ combinedArrivals' = getCombinedArrivals(processedStops', now)
  /\ UNCHANGED <<routePairs, staticData, parsedRealtimeData, stopCodes, stopNames, now,
                 hookStops, hookCombined, shellVars>>

NightTick ==
  /\ now < NightNow + MaxTicks * TickMs
  /\ now' = now + TickMs
  /\ UNCHANGED <<routePairs, staticData, parsedRealtimeData, stopCodes, stopNames,
                 procNow, processedStops, renderNow, combinedArrivals, hookStops,
                 hookCombined, shellVars>>

NightNext == BoardReconcile \/ Render \/ NightTick

NightSpec == NightInit /\ [][NightNext]_vars

-----------------------------------------------------------------------------
(* The polling of the real-time feed: the useSWR callbacks of TransitBoard. *)
(* The static snapshot has arrived; every refresh ends in onSuccess (with a *)
(* payload that decodes, with one that does not, or with none) or onError   *)

StaleMessage == "Real-time data is old"
ParseMessage == "Error parsing real-time data"
FetchMessage == "Failed to fetch real-time data"

\* isStale = dataAge > 30
StaleAfterMinutes == 30

\* header timestamps, in seconds: 08:00:00, 07:30:00, 07:29:30, 07:29:00,
\* 07:15:00 as a Long, and a feed without one
HeaderTimestamps ==
  {NumTs(28800), NumTs(27000), NumTs(26970), NumTs(26940), LongTs(26100, 0), NoTs}

PollEntityPool == <<EntityPool[1], EntityPool[2]>>
PollStopTimePool == <<StopTimePool[1], StopTimePool[3], StopTimePool[4]>>

PollSnapshots ==
  {[loaded |-> TRUE, stops |-> Stops, routes |-> Routes, trips |-> Trips, stopTimes |-> sts] :
     sts \in SubSeqs(PollStopTimePool, MaxStopTimes)}

PollFeeds ==
  {[present |-> TRUE, header |-> [timestamp |-> ts], entity |-> es] :
     ts \in HeaderTimestamps, es \in SubSeqs(PollEntityPool, MaxEntities)}

PollInit ==
  /\ routePairs = ROUTE_PAIRS
  /\ staticData \in PollSnapshots
  /\ parsedRealtimeData = NoFeed
  /\ stopCodes \in StopLists
  /\ stopNames = NamesOf(Stops)
  /\ now = Now0
  /\ procNow = Now0
  /\ processedStops = processAll(staticData, NoFeed, stopNames, routePairs, stopCodes, Now0)
  /\ renderNow = Now0
  /\ combinedArrivals = getCombinedArrivals(processedStops, Now0)
  /\ hookStops = <<>>
  /\ hookCombined = <<>>
  /\ ShellInit

\* setLastGlobalUpdate(new Date()) changes processStopData: the render that
\* follows recomputes processedStops from the feed then in state
AfterGlobalUpdate(feed) ==
  /\ procNow' = now
  /\ processedStops' = processAll(staticData, feed, stopNames, routePairs, stopCodes, now)
  /\ renderNow' = now
  /\ combinedArrivals' = getCombinedArrivals(processedStops', now)

\* onSuccess with a payload that decodes to feed
PollSuccess(feed) ==
  /\ parsedRealtimeData' = feed
  /\ connectionError' =
       IF /\ Truthy(feed.header.timestamp)
          /\ calculateDataAge(feed.header.timestamp, now) > StaleAfterMinutes
         THEN StaleMessage ELSE NoError
  /\ AfterGlobalUpdate(feed)
  /\ UNCHANGED <<routePairs, staticData, stopCodes, stopNames, now, hookStops, hookCombined,
                 newStopCode, debouncedStopCode, savedConfigs, pendingEffect, serverVars>>

\* onSuccess with a payload whose decoding throws
PollDecodeError ==
  /\ connectionError' = ParseMessage
  /\ AfterGlobalUpdate(parsedRealtimeData)
  /\ UNCHANGED <<routePairs, staticData, parsedRealtimeData, stopCodes, stopNames, now,
                 hookStops, hookCombined, newStopCode, debouncedStopCode, savedConfigs,
                 pendingEffect, serverVars>>

\* onSuccess with a response that reports no success or carries no payload
PollNoPayload ==
  /\ connectionError' = NoError
  /\ AfterGlobalUpdate(parsedRealtimeData)
  /\ UNCHANGED <<routePairs, staticData, parsedRealtimeData, stopCodes, stopNames, now,
                 hookStops, hookCombined, newStopCode, debouncedStopCode, savedConfigs,
                 pendingEffect, serverVars>>

\* onError: the banner changes, the board renders from its memoized results
PollError ==
  /\ connectionError' = FetchMessage
  /\ renderNow' = now
  /\ combinedArrivals' = getCombinedArrivals(processedStops, now)
  /\ UNCHANGED <<routePairs, staticData, parsedRealtimeData, stopCodes, stopNames, now,
                 procNow, processedStops, hookStops, hookCombined,
                 newStopCode, debouncedStopCode, savedConfigs, pendingEffect, serverVars>>

PollNext ==
  \/ \E feed \in PollFeeds : PollSuccess(feed)
  \/ PollDecodeError
  \/ PollNoPayload
  \/ PollError
  \/ Tick

PollSpec == PollInit /\ [][PollNext]_vars

-----------------------------------------------------------------------------
(* The page (Home): the monitored stop list and the operations on it. The   *)
(* board below the form recomputes its per-stop results whenever the list   *)
(* or the stop names change                                                 *)

MAX_STOPS == 15

Null == "null"

\* the strings typed into the stop code field, by character
InputChars(s) ==
  CASE s = "" -> <<>>
    [] s = " 345 " -> <<" ", "3", "4", "5", " ">>
    [] s = "345" -> <<"3", "4", "5">>
    [] s = "330" -> <<"3", "3", "0">>
    [] s = "12a" -> <<"1", "2", "a">>

InputTexts == {"", " 345 ", "345", "330", "12a"}

\* the values the field takes in the model
TypedCodes == {" 345 ", "330", "12a"}

RECURSIVE TrimStart(_)
TrimStart(cs) == IF cs # <<>> /\ Head(cs) = " " THEN TrimStart(Tail(cs)) ELSE cs

RECURSIVE TrimEnd(_)
TrimEnd(cs) ==
  IF cs # <<>> /\ cs[Len(cs)] = " " THEN TrimEnd(SubSeq(cs, 1, Len(cs) - 1)) ELSE cs

\* String.prototype.trim
Trim(s) ==
  LET cs == TrimEnd(TrimStart(InputChars(s)))
  IN CHOOSE t \in InputTexts : InputChars(t) = cs

Digits == {"0", "1", "2", "3", "4", "5", "6", "7", "8", "9"}

\* /^[0-9]{1,6}$/ and not '000000'
StopCodeSchema(s) ==
  LET cs == InputChars(s)
  IN /\ Len(cs) >= 1
     /\ Len(cs) <= 6
     /\ \A i \in 1..Len(cs) : cs[i] \in Digits
     /\ s # "000000"

validateStopCode(code) ==
  LET trimmed == Trim(code) IN IF StopCodeSchema(trimmed) THEN trimmed ELSE Null

\* the stops of the static tables the page is used with: the two stops with
\* departures and stops that only have a name
PageCodes == <<"330", "100", "331", "335", "329", "201", "202", "203", "204", "205",
               "206", "207", "208", "209", "210", "345">>

PageStops ==
  Stops \o [i \in 1..(Len(PageCodes) - Len(Stops)) |->
              [stop_id |-> "S" \o PageCodes[i + Len(Stops)],
               stop_code |-> PageCodes[i + Len(Stops)],
               stop_name |-> "Bayfield Street"]]

SUGGESTED_CONFIGS == <<[name |-> "Georgian College", stops |-> <<"330", "331", "335", "329">>]>>

\* the names typed into the configuration name field
ConfigNames == {"", "Home"}

\* the stops whose remove button is pressed in the model
RemovableCodes == {"330", "345"}

Prefix(s, n) == SubSeq(s, 1, n)

SeqIncludes(s, x) == \E i \in 1..Len(s) : s[i] = x

NoNames == <<>>

\* stopNames[code] is a non-empty string
HasName(names, code) == code \in DOMAIN names /\ names[code] # ""

\* loadStopNames has not finished while the names are empty
isLoadingStops == DOMAIN stopNames = {}

PageSnapshots ==
  {[loaded |-> TRUE, stops |-> PageStops, routes |-> Routes, trips |-> Trips, stopTimes |-> sts] :
     sts \in {<<StopTimePool[1], StopTimePool[2], StopTimePool[4]>>}}

PageFeeds ==
  {NoFeed,
   [present |-> TRUE, header |-> [timestamp |-> NumTs(28800)],
    entity |-> <<EntityPool[1], EntityPool[2]>>]}

\* variant: the effect does not look at the length of the list
AutoAddUncapped(codes, debounced, names) ==
  LET trimmedCode == Trim(debounced)
  IN /\ trimmedCode # ""
     /\ validateStopCode(trimmedCode) # Null
     /\ ~SeqIncludes(codes, trimmedCode)
     /\ DOMAIN names # {}
     /\ HasName(names, trimmedCode)

\* variant: the effect does not look for the code in the list
AutoAddRepeated(codes, debounced, names) ==
  LET trimmedCode == Trim(debounced)
  IN /\ trimmedCode # ""
     /\ validateStopCode(trimmedCode) # Null
     /\ Len(codes) < MAX_STOPS
     /\ DOMAIN names # {}
     /\ HasName(names, trimmedCode)

\* the auto-add effect, run with the state of the render it follows
AutoAdd(codes, debounced, names) ==
  LET trimmedCode == Trim(debounced)
  IN /\ trimmedCode # ""
     /\ validateStopCode(trimmedCode) # Null
     /\ ~SeqIncludes(codes, trimmedCode)
     /\ Len(codes) < MAX_STOPS
     /\ DOMAIN names # {}
     /\ HasName(names, trimmedCode)

\* the renders after an update of the page: an effect still waiting from the
\* commit before runs first, with the list of that commit and a functional
\* update of the latest list; then the effect runs once with the new state
\* (after it has added the code the list includes it), and the board
\* recomputes for the list and the names it is given
AfterPageUpdate(codes, typed, debounced, names) ==
  LET flush == pendingEffect.pending /\ AutoAdd(pendingEffect.stopCodes, debounced, names)
      latest == IF flush THEN Append(codes, Trim(debounced)) ELSE codes
      add == AutoAdd(latest, debounced, names)
  IN /\ stopCodes' = IF add THEN Append(latest, Trim(debounced)) ELSE latest
     /\ newStopCode' = IF flush \/ add THEN "" ELSE typed
     /\ debouncedStopCode' = debounced
     /\ stopNames' = names
     /\ procNow' = now
     /\ processedStops' = processAll(staticData, parsedRealtimeData, names, routePairs,
                                     stopCodes', now)
     /\ renderNow' = now
     /\ combinedArrivals' = getCombinedArrivals(processedStops', now)
     /\ pendingEffect' = NoPending
     /\ UNCHANGED <<routePairs, staticData, parsedRealtimeData, now, hookStops, hookCombined,
                    connectionError, serverVars>>

PageInit ==
  /\ routePairs = ROUTE_PAIRS
  /\ staticData \in PageSnapshots
  /\ parsedRealtimeData \in PageFeeds
  /\ stopCodes \in {<<>>, Prefix(PageCodes, MAX_STOPS)}
  /\ stopNames = NoNames
  /\ now = Now0
  /\ procNow = Now0
  /\ processedStops = processAll(staticData, parsedRealtimeData, stopNames, routePairs,
                                 stopCodes, Now0)
  /\ renderNow = Now0
  /\ combinedArrivals = getCombinedArrivals(processedStops, Now0)
  /\ hookStops = <<>>
  /\ hookCombined = <<>>
  /\ ShellInit

\* loadStopNames succeeds
loadStopNames ==
  /\ isLoadingStops
  /\ AfterPageUpdate(stopCodes, newStopCode, debouncedStopCode, NamesOf(PageStops))
  /\ UNCHANGED savedConfigs

\* handleStopCodeChange: the field changes, the debounce timer restarts
handleStopCodeChange(value) ==
  /\ newStopCode' = value
  /\ UNCHANGED <<routePairs, staticData, parsedRealtimeData, stopCodes, stopNames, now,
                 procNow, processedStops, renderNow, combinedArrivals, hookStops,
                 hookCombined, connectionError, pendingEffect, serverVars,
                 debouncedStopCode, savedConfigs>>

\* useDebounce: the field has kept its value for DEBOUNCE_DELAY
Debounce ==
  /\ debouncedStopCode # newStopCode
  /\ AfterPageUpdate(stopCodes, newStopCode, newStopCode, stopNames)
  /\ UNCHANGED savedConfigs

handleAddStop ==
  LET trimmedCode == validateStopCode(newStopCode)
  IN /\ ~isLoadingStops
     /\ trimmedCode # Null
     /\ HasName(stopNames, trimmedCode)
     /\ ~SeqIncludes(stopCodes, trimmedCode)
     /\ Len(stopCodes) < MAX_STOPS
     /\ AfterPageUpdate(Append(stopCodes, trimmedCode), "", debouncedStopCode, stopNames)
     /\ UNCHANGED savedConfigs

handleRemoveStop(stopCode) ==
  /\ SeqIncludes(stopCodes, stopCode)
  /\ AfterPageUpdate(SelectSeq(stopCodes, LAMBDA code : code # stopCode), newStopCode,
                     debouncedStopCode, stopNames)
  /\ UNCHANGED savedConfigs

\* the Start Fresh button
StartFresh ==
  /\ Len(stopCodes) > 0
  /\ AfterPageUpdate(<<>>, newStopCode, debouncedStopCode, stopNames)
  /\ UNCHANGED savedConfigs

handleSaveConfig(newConfigName) ==
  /\ newConfigName # ""
  /\ Len(stopCodes) # 0
  /\ ~\E i \in 1..Len(savedConfigs) : savedConfigs[i].name = newConfigName
  /\ savedConfigs' = Append(savedConfigs, [name |-> newConfigName, stops |-> stopCodes])
  /\ UNCHANGED <<routePairs, staticData, parsedRealtimeData, stopCodes, stopNames, now,
                 procNow, processedStops, renderNow, combinedArrivals, hookStops,
                 hookCombined, connectionError, pendingEffect, serverVars,
                 newStopCode, debouncedStopCode>>

handleLoadConfig(stops) ==
  /\ AfterPageUpdate(stops, newStopCode, debouncedStopCode, stopNames)
  /\ UNCHANGED savedConfigs

handleDeleteConfig(name) ==
  /\ \E i \in 1..Len(savedConfigs) : savedConfigs[i].name = name
  /\ savedConfigs' = SelectSeq(savedConfigs, LAMBDA cfg : cfg.name # name)
  /\ UNCHANGED <<routePairs, staticData, parsedRealtimeData, stopCodes, stopNames, now,
                 procNow, processedStops, renderNow, combinedArrivals, hookStops,
                 hookCombined, connectionError, pendingEffect, serverVars,
                 newStopCode, debouncedStopCode>>

PageNext ==
  \/ loadStopNames
  \/ \E value \in TypedCodes : handleStopCodeChange(value)
  \/ Debounce
  \/ handleAddStop
  \/ \E stopCode \in RemovableCodes : handleRemoveStop(stopCode)
  \/ StartFresh
  \/ \E newConfigName \in ConfigNames : handleSaveConfig(newConfigName)
  \/ \E i \in 1..Len(SUGGESTED_CONFIGS) : handleLoadConfig(SUGGESTED_CONFIGS[i].stops)
  \/ \E i \in 1..Len(savedConfigs) : handleLoadConfig(savedConfigs[i].stops)
  \/ \E name \in ConfigNames : handleDeleteConfig(name)

PageSpec == PageInit /\ [][PageNext]_vars

-----------------------------------------------------------------------------
(* Direction inference on its own: one route, one trip, one stop_time and  *)
(* at most one trip update at stop 330, with the route's short name and    *)
(* the trip's headsign drawn from the sets below                           *)

RouteNames == {"8A", "8B", "400", "2A", "2B", "1", "10", "A1", "AB", "Bay"}

Headsigns ==
  {"to Georgian College", "to Park Place", "to Downtown Barrie Terminal", "Loop",
   "Georgian Mall", "Southbound", "North via Park Place",
   "to Park Place via to Georgian College"}

DirectionSnapshots ==
  {[loaded |-> TRUE, stops |-> Stops,
    routes |-> <<[route_id |-> "RT", route_short_name |-> name]>>,
    trips |-> <<[trip_id |-> "T1", route_id |-> "RT", trip_headsign |-> headsign]>>,
    stopTimes |-> <<StopTime("T1", "S330", <<8, 10, 0>>, <<8, 10, 0>>, "")>>] :
     name \in RouteNames, headsign \in Headsigns}

DirectionFeeds ==
  {NoFeed,
   [present |-> TRUE, header |-> [timestamp |-> NumTs(28800)],
    entity |-> <<Entity("T1", "RT", <<Update("S330", Event(NumTs(29370), 60), NoEvent)>>)>>]}

DirectionInit ==
  /\ routePairs = ROUTE_PAIRS
  /\ staticData \in DirectionSnapshots
  /\ parsedRealtimeData \in DirectionFeeds
  /\ stopCodes = <<"330">>
  /\ stopNames = NamesOf(Stops)
  /\ now = Now0
  /\ procNow = Now0
  /\ processedStops = <<>>
  /\ renderNow = Now0
  /\ combinedArrivals = <<>>
  /\ hookStops = <<>>
  /\ hookCombined = <<>>
  /\ ShellInit

DirectionSpec == DirectionInit /\ [][Next]_vars

-----------------------------------------------------------------------------
(* Pairing on its own: a table with pairs configured, one scheduled 8A     *)
(* arrival at stop 330 whose headsign is drawn from PairingHeadsigns, and  *)
(* real-time arrivals of 8B trips of every direction at the same stop      *)

PairingHeadsigns == {"to Georgian College", "to Park Place", "Loop"}

PairingRoutes == <<
  [route_id |-> "R8A", route_short_name |-> "8A"],
  [route_id |-> "R8B", route_short_name |-> "8B"] >>

PairingTrips(headsign) == <<
  [trip_id |-> "T1", route_id |-> "R8A", trip_headsign |-> headsign],
  [trip_id |-> "T3", route_id |-> "R8B", trip_headsign |-> "to Park Place"],
  [trip_id |-> "T4", route_id |-> "R8B", trip_headsign |-> "to Georgian College"],
  [trip_id |-> "T7", route_id |-> "R8B", trip_headsign |-> "Loop"],
  [trip_id |-> "T8", route_id |-> "R8B", trip_headsign |-> "to Georgian College"] >>

PairingEntityPool == <<
  Entity("T3", "R8B", <<Update("S330", Event(NumTs(28920), 0), NoEvent)>>),
  Entity("T4", "R8B", <<Update("S330", Event(NumTs(29700), 30), NoEvent)>>),
  Entity("T7", "R8B", <<Update("S330", Event(NumTs(29100), 0), NoEvent)>>),
  Entity("T8", "R8B", <<Update("S330", Event(NumTs(29040), 90), NoEvent)>>),
  Entity("T1", "R8A", <<Update("S330", Event(NumTs(29370), 60), NoEvent)>>) >>

PairingSnapshots ==
  {[loaded |-> TRUE, stops |-> Stops, routes |-> PairingRoutes,
    trips |-> PairingTrips(headsign),
    stopTimes |-> <<StopTime("T1", "S330", <<8, 10, 0>>, <<8, 10, 0>>, "")>>] :
     headsign \in PairingHeadsigns}

PairingFeeds ==
  {[present |-> TRUE, header |-> [timestamp |-> NumTs(28800)], entity |-> es] :
     es \in SubSeqs(PairingEntityPool, MaxEntities)}

PairingInit ==
  /\ routePairs = ConfiguredPairs
  /\ staticData \in PairingSnapshots
  /\ parsedRealtimeData \in PairingFeeds \cup {NoFeed}
  /\ stopCodes = <<"330">>
  /\ stopNames = NamesOf(Stops)
  /\ now = Now0
  /\ procNow = Now0
  /\ processedStops = <<>>
  /\ renderNow = Now0
  /\ combinedArrivals = <<>>
  /\ hookStops = <<>>
  /\ hookCombined = <<>>
  /\ ShellInit

PairingSpec == PairingInit /\ [][Next]_vars

-----------------------------------------------------------------------------
(* The page with the debounce timer and the auto-add effect as two steps.  *)
(* The timer's update is not a discrete event: React commits its render    *)
(* and runs the passive effects of that commit in a later task, so that a  *)
(* click or a submit may be handled in between, with the state of the      *)
(* commit. The handler's render then runs the waiting effect first.        *)

\* useDebounce fires: debouncedStopCode follows the field, the render is
\* committed and its auto-add effect waits, holding the list of this render
DebounceCommit ==
  /\ debouncedStopCode # newStopCode
  /\ ~pendingEffect.pending
  /\ debouncedStopCode' = newStopCode
  /\ pendingEffect' = [pending |-> TRUE, stopCodes |-> stopCodes]
  /\ UNCHANGED <<routePairs, staticData, parsedRealtimeData, stopCodes, stopNames, now,
                 procNow, processedStops, renderNow, combinedArrivals, hookStops,
                 hookCombined, connectionError, newStopCode, savedConfigs, serverVars>>

\* the waiting auto-add effect runs before any other event
autoAddEffect ==
  /\ pendingEffect.pending
  /\ AfterPageUpdate(stopCodes, newStopCode, debouncedStopCode, stopNames)
  /\ UNCHANGED savedConfigs

RaceNext ==
  \/ loadStopNames
  \/ \E value \in TypedCodes : handleStopCodeChange(value)
  \/ DebounceCommit
  \/ autoAddEffect
  \/ handleAddStop
  \/ \E stopCode \in RemovableCodes : handleRemoveStop(stopCode)
  \/ StartFresh
  \/ \E i \in 1..Len(SUGGESTED_CONFIGS) : handleLoadConfig(SUGGESTED_CONFIGS[i].stops)

RaceInit ==
  /\ routePairs = ROUTE_PAIRS
  /\ staticData \in PageSnapshots
  /\ parsedRealtimeData \in PageFeeds
  /\ stopCodes \in {<<>>, Prefix(PageCodes, MAX_STOPS - 1)}
  /\ stopNames = NoNames
  /\ now = Now0
  /\ procNow = Now0
  /\ processedStops = processAll(staticData, parsedRealtimeData, stopNames, routePairs,
                                 stopCodes, Now0)
  /\ renderNow = Now0
  /\ combinedArrivals = getCombinedArrivals(processedStops, Now0)
  /\ hookStops = <<>>
  /\ hookCombined = <<>>
  /\ ShellInit

RaceSpec == RaceInit /\ [][RaceNext]_vars

-----------------------------------------------------------------------------
(* The API route /api/gtfs/TripUpdates: a module-level cache, GET requests *)
(* that answer from it or await the upstream, and DELETE. The code between *)
(* two awaits runs as one step; several GETs may await the upstream at the *)
(* same time. now is the server's Date.now().                              *)

CACHE_DURATION == 30 * MsPerSecond

\* the clock advances in steps of ten seconds, MaxCacheTicks times
CacheTickMs == 10 * MsPerSecond
MaxCacheTicks == 5
MaxRequests == 2

\* NextResponse.json({ success, data, cached, stale, ... }) sent at time at
Response(kind, success, stale, data, at) ==
  [kind |-> kind, success |-> success, stale |-> stale, data |-> data, at |-> at]

\* realtimeData: the payload is named by the time at which the upstream
\* delivered it, timestamp is the now of the request that fetched it
RealtimeData(startNow, fetchedAt) == [payload |-> fetchedAt, timestamp |-> startNow]

\* GET with a valid cache entry: "Serving cached GTFS real-time data"
GetCached ==
  /\ realtimeCache.present
  /\ now < realtimeCache.expiresAt
  /\ response' = Response("cached", TRUE, FALSE, realtimeCache.data, now)
  /\ UNCHANGED <<routePairs, staticData, parsedRealtimeData, stopCodes, stopNames, now,
                 procNow, processedStops, renderNow, combinedArrivals, hookStops,
                 hookCombined, connectionError, newStopCode, debouncedStopCode,
                 savedConfigs, pendingEffect, realtimeCache, requests>>

\* GET without one: the request reads now and awaits fetch(GTFS_REALTIME_URL)
GetFetch ==
  /\ ~(realtimeCache.present /\ now < realtimeCache.expiresAt)
  /\ Cardinality(requests) < MaxRequests
  /\ now \notin requests
  /\ requests' = requests \cup {now}
  /\ UNCHANGED <<routePairs, staticData, parsedRealtimeData, stopCodes, stopNames, now,
                 procNow, processedStops, renderNow, combinedArrivals, hookStops,
                 hookCombined, connectionError, newStopCode, debouncedStopCode,
                 savedConfigs, pendingEffect, realtimeCache, response>>

\* the upstream answered the request that started at startNow: "Update cache"
FetchSucceeds(startNow) ==
  /\ startNow \in requests
  /\ requests' = requests \ {startNow}
  /\ realtimeCache' = [present |-> TRUE,
                       data |-> RealtimeData(startNow, now),
                       timestamp |-> startNow,
                       expiresAt |-> startNow + CACHE_DURATION]
  /\ response' = Response("fresh", TRUE, FALSE, RealtimeData(startNow, now), now)
  /\ UNCHANGED <<routePairs, staticData, parsedRealtimeData, stopCodes, stopNames, now,
                 procNow, processedStops, renderNow, combinedArrivals, hookStops,
                 hookCombined, connectionError, newStopCode, debouncedStopCode,
                 savedConfigs, pendingEffect>>

\* a variant whose catch block drops the cache entry
FetchFailsClearing(startNow) ==
  /\ startNow \in requests
  /\ requests' = requests \ {startNow}
  /\ realtimeCache' = NoCache
  /\ response' = IF realtimeCache.present
                   THEN Response("stale", TRUE, TRUE, realtimeCache.data, now)
                   ELSE Response("error", FALSE, FALSE, 0, now)
  /\ UNCHANGED <<routePairs, staticData, parsedRealtimeData, stopCodes, stopNames, now,
                 procNow, processedStops, renderNow, combinedArrivals, hookStops,
                 hookCombined, connectionError, newStopCode, debouncedStopCode,
                 savedConfigs, pendingEffect>>

\* the fetch of that request failed (timeout, network error, status not ok):
\* the catch block answers from the cache entry if there is one
FetchFails(startNow) ==
  /\ startNow \in requests
  /\ requests' = requests \ {startNow}
  /\ response' = IF realtimeCache.present
                   THEN Response("stale", TRUE, TRUE, realtimeCache.data, now)
                   ELSE Response("error", FALSE, FALSE, 0, now)
  /\ UNCHANGED <<routePairs, staticData, parsedRealtimeData, stopCodes, stopNames, now,
                 procNow, processedStops, renderNow, combinedArrivals, hookStops,
                 hookCombined, connectionError, newStopCode, debouncedStopCode,
                 savedConfigs, pendingEffect, realtimeCache>>

\* DELETE: "Real-time cache cleared"
Delete ==
  /\ realtimeCache' = NoCache
  /\ response' = Response("cleared", TRUE, FALSE, 0, now)
  /\ UNCHANGED <<routePairs, staticData, parsedRealtimeData, stopCodes, stopNames, now,
                 procNow, processedStops, renderNow, combinedArrivals, hookStops,
                 hookCombined, connectionError, newStopCode, debouncedStopCode,
                 savedConfigs, pendingEffect, requests>>

\* time passes on the server
CacheTick ==
  /\ now < Now0 + MaxCacheTicks * CacheTickMs
  /\ now' = now + CacheTickMs
  /\ UNCHANGED <<routePairs, staticData, parsedRealtimeData, stopCodes, stopNames,
                 procNow, processedStops, renderNow, combinedArrivals, hookStops,
                 hookCombined, shellVars>>

CacheNext ==
  \/ GetCached
  \/ GetFetch
  \/ \E startNow \in requests : FetchSucceeds(startNow)
  \/ \E startNow \in requests : FetchFails(startNow)
  \/ Delete
  \/ CacheTick

CacheInit ==
  /\ routePairs = ROUTE_PAIRS
  /\ staticData = NoStatic
  /\ parsedRealtimeData = NoFeed
  /\ stopCodes = <<>>
  /\ stopNames = NoNames
  /\ now = Now0
  /\ procNow = Now0
  /\ processedStops = <<>>
  /\ renderNow = Now0
  /\ combinedArrivals = <<>>
  /\ hookStops = <<>>
  /\ hookCombined = <<>>
  /\ ShellInit

CacheSpec == CacheInit /\ [][CacheNext]_vars

-----------------------------------------------------------------------------
(* Vocabulary of the properties *)

\* the per-stop results belong to the current inputs
Processed == Len(processedStops) = Len(stopCodes)

StopIndexes == 1..Len(processedStops)

Known(code) == staticData.loaded /\ FindStop(staticData, code) # 0

\* the candidate lists the memoized processing of stop i worked from
BoardStatic(i) ==
  IF Known(stopCodes[i])
    THEN boardStaticArrivals(staticData, stopNames, stopCodes[i], procNow) ELSE <<>>
BoardRealtime(i) ==
  IF Known(stopCodes[i])
    THEN boardRealtimeArrivals(staticData, parsedRealtimeData, stopNames, stopCodes[i], procNow)
    ELSE <<>>
HookStatic(i) ==
  IF Known(stopCodes[i])
    THEN hookStaticArrivals(staticData, stopNames, stopCodes[i], procNow) ELSE <<>>
HookRealtime(i) ==
  IF Known(stopCodes[i])
    THEN hookRealtimeArrivals(staticData, parsedRealtimeData, stopNames, stopCodes[i], procNow)
    ELSE <<>>

Range(s) == {s[j] : j \in 1..Len(s)}

\* the grouping key as a triple
KeyOf(a) == <<a.routeId, a.tripId, a.stopCode>>

OnePerKey(arrivals) ==
  \A x, y \in 1..Len(arrivals) : x # y => KeyOf(arrivals[x]) # KeyOf(arrivals[y])

AllLists ==
  {processedStops[i].arrivals : i \in StopIndexes}
    \cup {hookStops[i] : i \in 1..Len(hookStops)}
    \cup {combinedArrivals, hookCombined}

Opposite(direction) == IF direction = "northbound" THEN "southbound" ELSE "northbound"

-----------------------------------------------------------------------------
(* C1: the arrival list that per-stop processing returns, in the board and *)
(* in the hook, holds at most one arrival per (routeId, headsign,          *)
(* stopCode).                                                              *)
C1_GroupingUniqueness ==
  Processed =>
    /\ \A i \in StopIndexes : OnePerKey(processedStops[i].arrivals)
    /\ \A i \in 1..Len(hookStops) : OnePerKey(hookStops[i])

\* a stop was processed whose candidates collide on a key
C1_Witness ==
  /\ Processed
  /\ \E i \in StopIndexes :
       LET cands == BoardStatic(i) \o BoardRealtime(i)
       IN /\ \E x, y \in 1..Len(cands) : x # y /\ KeyOf(cands[x]) = KeyOf(cands[y])
          /\ Len(processedStops[i].arrivals) > 0
          /\ Len(hookStops[i]) > 0

(* C2: when the real-time and the scheduled candidates of a stop share a   *)
(* key, the entry of the result for that key is real-time, has the time    *)
(* and delay of an earliest real-time candidate of the key, and no         *)
(* scheduled row of the key is in the result.                              *)
C2_RealtimePrecedence ==
  Processed =>
    \A i \in StopIndexes :
      \A st \in Range(BoardStatic(i)) :
        LET rts == {rt \in Range(BoardRealtime(i)) : KeyOf(rt) = KeyOf(st)}
            entries == {e \in Range(processedStops[i].arrivals) : KeyOf(e) = KeyOf(st)}
        IN rts # {} =>
             /\ entries # {}
             /\ \A e \in entries :
                  /\ e.isRealtime
                  /\ \E rt \in rts :
                       /\ e.arrivalTime = rt.arrivalTime
                       /\ e.delay = rt.delay
                       /\ \A other \in rts : rt.arrivalTime <= other.arrivalTime

\* a scheduled candidate earlier than the real-time candidates of its key
C2_Witness ==
  /\ Processed
  /\ \E i \in StopIndexes :
       \E st \in Range(BoardStatic(i)) :
         LET rts == {rt \in Range(BoardRealtime(i)) : KeyOf(rt) = KeyOf(st)}
         IN /\ Cardinality(rts) >= 2
            /\ \A rt \in rts : st.arrivalTime < rt.arrivalTime
            /\ \E e \in Range(processedStops[i].arrivals) : KeyOf(e) = KeyOf(st)

(* C3: a key that holds a direct real-time arrival after the merge is not  *)
(* replaced by the substitution pass: the result holds that arrival, with  *)
(* pairedEstimate false, whatever the pairing table.                       *)
C3_PairingOnlyOnMiss ==
  Processed =>
    \A i \in StopIndexes :
      /\ \A m \in Range(boardMerge(BoardStatic(i), BoardRealtime(i))) :
           m.val.isRealtime =>
             /\ m.val \in Range(processedStops[i].arrivals)
             /\ ~m.val.pairedEstimate
             /\ \A e \in Range(processedStops[i].arrivals) :
                  KeyOf(e) = KeyOf(m.val) => e = m.val
      /\ \A m \in Range(hookMerge(HookStatic(i), HookRealtime(i))) :
           m.val.isRealtime =>
             /\ m.val \in Range(hookStops[i])
             /\ ~m.val.pairedEstimate
             /\ \A e \in Range(hookStops[i]) : KeyOf(e) = KeyOf(m.val) => e = m.val

\* a scheduled arrival with a direct real-time match for which the paired
\* route also offers an arrival
C3_Witness ==
  /\ Processed
  /\ \E i \in StopIndexes :
       \E st \in Range(BoardStatic(i)) :
         /\ \E rt \in Range(BoardRealtime(i)) : KeyOf(rt) = KeyOf(st)
         /\ boardFindPaired(st, BoardRealtime(i), findPairedRoute(routePairs, st.routeId)) # 0
         /\ \E e \in Range(processedStops[i].arrivals) : KeyOf(e) = KeyOf(st)

(* C4: with the pairing table empty no arrival of any per-stop result or   *)
(* of the aggregated lists is a paired estimate.                           *)
C4_EmptyTableNoPairing ==
  routePairs = ROUTE_PAIRS =>
    \A list \in AllLists : \A a \in Range(list) : ~a.pairedEstimate

\* the table is empty, and a scheduled 8A arrival without direct real-time
\* data stands next to a real-time arrival on 8B at the same stop
C4_Witness ==
  /\ routePairs = ROUTE_PAIRS
  /\ Processed
  /\ \E i \in StopIndexes :
       \E st \in Range(BoardStatic(i)) :
         /\ st.routeId = "8A"
         /\ \A rt \in Range(BoardRealtime(i)) : KeyOf(rt) # KeyOf(st)
         /\ \E rt \in Range(BoardRealtime(i)) :
              rt.routeId = "8B" /\ rt.direction = st.direction
         /\ st \in Range(processedStops[i].arrivals)
         /\ st \in Range(combinedArrivals)

(* C5: when the table pairs route R (8A, 8B or 400) with P, a scheduled    *)
(* arrival on R has a direction and no direct real-time match, and a       *)
(* real-time candidate on P at the same stop runs in the opposite          *)
(* direction, the entry for the scheduled arrival's key is a paired        *)
(* estimate: isRealtime, pairedEstimate, and the time and delay of such a  *)
(* real-time arrival.                                                      *)
PairedFromOpposite(arrivals, st, rts, pairRoute) ==
  \A e \in Range(arrivals) :
    KeyOf(e) = KeyOf(st) =>
      /\ e.isRealtime
      /\ e.pairedEstimate
      /\ \E rt \in Range(rts) :
           /\ rt.routeId = pairRoute
           /\ rt.stopCode = st.stopCode
           /\ rt.direction = Opposite(st.direction)
           /\ e.arrivalTime = rt.arrivalTime
           /\ e.delay = rt.delay

OppositeCase(st, merged, rts, pairRoute) ==
  /\ st.routeId \in {"8A", "8B", "400"}
  /\ pairRoute # Undefined
  /\ st.direction # Undefined
  /\ \A m \in Range(merged) : m.key = makeKey(st) => ~m.val.isRealtime
  /\ \E rt \in Range(rts) :
       /\ rt.routeId = pairRoute
       /\ rt.stopCode = st.stopCode
       /\ rt.direction = Opposite(st.direction)

C5_OppositeDirectionPairing ==
  Processed =>
    \A i \in StopIndexes :
      \A st \in Range(BoardStatic(i)) :
        LET pairRoute == findPairedRoute(routePairs, st.routeId)
        IN OppositeCase(st, boardMerge(BoardStatic(i), BoardRealtime(i)),
                        BoardRealtime(i), pairRoute)
             => PairedFromOpposite(processedStops[i].arrivals, st, BoardRealtime(i), pairRoute)

\* the same statement of the hook's processStop, which does search the
\* opposite direction
C5_HookOppositeDirectionPairing ==
  Processed =>
    \A i \in StopIndexes :
      \A st \in Range(HookStatic(i)) :
        LET pairRoute == findPairedRoute(routePairs, st.routeId)
        IN OppositeCase(st, hookMerge(HookStatic(i), HookRealtime(i)),
                        HookRealtime(i), pairRoute)
             => PairedFromOpposite(hookStops[i], st, HookRealtime(i), pairRoute)

(* C6: in every reconciled list, per stop and aggregated, an arrival with  *)
(* pairedEstimate is also isRealtime.                                      *)
C6_PairedImpliesRealtime ==
  \A list \in AllLists : \A a \in Range(list) : a.pairedEstimate => a.isRealtime

\* a paired estimate reached the aggregated list of the board
C6_Witness ==
  /\ Processed
  /\ \E a \in Range(combinedArrivals) : a.pairedEstimate
  /\ \E a \in Range(hookCombined) : a.pairedEstimate

(* C7: in the final aggregated list every at-platform arrival (real-time,  *)
(* minutes until arrival in [-2, 0] at the time of the aggregation)        *)
(* precedes every other arrival, and the other arrivals are in ascending   *)
(* order of arrivalTime.                                                   *)
PlatformOrdered(list, nowMs) ==
  \A x, y \in 1..Len(list) :
    /\ (AtPlatform(list[x], nowMs) /\ ~AtPlatform(list[y], nowMs)) => x < y
    /\ (x < y /\ ~AtPlatform(list[x], nowMs) /\ ~AtPlatform(list[y], nowMs))
         => /\ ~IsNaN(list[x].arrivalTime)
            /\ ~IsNaN(list[y].arrivalTime)
            /\ list[x].arrivalTime <= list[y].arrivalTime

C7_BoardPlatformBucketOrdering == PlatformOrdered(combinedArrivals, renderNow)

\* an at-platform arrival later than a scheduled arrival it precedes
C7_BoardWitness ==
  /\ Processed
  /\ \E x, y \in 1..Len(combinedArrivals) :
       /\ AtPlatform(combinedArrivals[x], renderNow)
       /\ ~AtPlatform(combinedArrivals[y], renderNow)
       /\ combinedArrivals[x].arrivalTime > combinedArrivals[y].arrivalTime

(* C8: the window filter of getCombinedArrivals removes nothing: every     *)
(* arrival of the memoized per-stop results passes it when                 *)
(* getCombinedArrivals runs.                                               *)
C8_RefilterRemovesNothing ==
  Processed =>
    \A i \in StopIndexes : \A a \in Range(processedStops[i].arrivals) :
      /\ InWindow(a.arrivalTime, renderNow)
      /\ a \in Range(combinedArrivals)

(* C8 as amended: when getCombinedArrivals reads the same clock value as   *)
(* the per-stop processing did, its filter removes nothing; when it runs   *)
(* later, the rows it removes are those whose minutes until arrival fell   *)
(* below -1, and the rows it keeps are exactly the others.                 *)
C8_RefilterAtSameClock ==
  Processed =>
    \A i \in StopIndexes : \A a \in Range(processedStops[i].arrivals) :
      /\ renderNow = procNow => a \in Range(combinedArrivals)
      /\ MinutesUntil(a.arrivalTime, renderNow) <= MAX_ARRIVALS_WINDOW
      /\ a \in Range(combinedArrivals) <=> MinutesUntil(a.arrivalTime, renderNow) >= -1

\* a per-stop result with a row one minute past, aggregated at the clock
\* value of its processing
C8_Witness ==
  /\ Processed
  /\ renderNow = procNow
  /\ \E i \in StopIndexes : \E a \in Range(processedStops[i].arrivals) :
       MinutesUntil(a.arrivalTime, renderNow) = -1 /\ a \in Range(combinedArrivals)

(* C9: a stop-time update whose time is a {low, high} pair yields the      *)
(* real-time arrival that the plain number low + high * 2^32 yields.       *)
Normalized(ts) == IF ts.kind \in {"pair", "long"} THEN NumTs(extractTimestamp(ts)) ELSE ts

NormalizedFeed(feed) ==
  [feed EXCEPT !.entity =
     [e \in 1..Len(feed.entity) |->
        [feed.entity[e] EXCEPT !.tripUpdate.stopTimeUpdate =
           [u \in 1..Len(feed.entity[e].tripUpdate.stopTimeUpdate) |->
              LET su == feed.entity[e].tripUpdate.stopTimeUpdate[u]
              IN [su EXCEPT !.arrival.time = Normalized(su.arrival.time),
                            !.departure.time = Normalized(su.departure.time)]]]]]

C10_FindPairedRoute ==
  routePairs = ROUTE_PAIRS =>
    /\ findPairedRoute(routePairs, "2A") = "2B"
    /\ findPairedRoute(routePairs, "99") = Undefined

-----------------------------------------------------------------------------
(* C11: generatePairedEstimate, given a scheduled arrival without          *)
(* real-time data and a real-time list holding an arrival at the same stop *)
(* in the opposite direction, returns a defined estimate with              *)
(* pairedEstimate and isRealtime set and with the arrivalTime of that      *)
(* real-time arrival.                                                      *)
C11_GeneratePairedEstimate ==
  Processed =>
    \A i \in StopIndexes :
      \A st \in Range(BoardStatic(i)) :
        LET matches == {rt \in Range(BoardRealtime(i)) :
                          /\ rt.stopCode = st.stopCode
                          /\ rt.direction = Opposite(st.direction)}
            estimate == generatePairedEstimate(st, BoardRealtime(i))
        IN (~st.isRealtime /\ st.direction # Undefined /\ matches # {}) =>
             /\ Len(estimate) = 1
             /\ estimate[1].pairedEstimate
             /\ estimate[1].isRealtime
             /\ \E rt \in matches : estimate[1].arrivalTime = rt.arrivalTime

\* the stop list without its i-th code
Without(codes, i) == [j \in 1..(Len(codes) - 1) |-> IF j < i THEN codes[j] ELSE codes[j + 1]]

\* stop i has no stop record, or its processing throws
Failing(i) ==
  /\ staticData.loaded
  /\ \/ FindStop(staticData, stopCodes[i]) = 0
     \/ processingThrows(staticData, parsedRealtimeData, stopCodes[i])

(* C12: a monitored stop code without a static stop record, or whose       *)
(* processing throws, yields an empty arrival list and a per-stop error    *)
(* string, and the aggregated list is the one the other monitored stops    *)
(* give without the failing stop.                                          *)
C12_FailureIsolation ==
  Processed =>
    \A i \in StopIndexes :
      Failing(i) =>
        /\ processedStops[i].arrivals = <<>>
        /\ processedStops[i].error # NoError
        /\ combinedArrivals =
             getCombinedArrivals(
               processAll(staticData, parsedRealtimeData, stopNames, routePairs,
                          Without(stopCodes, i), procNow), renderNow)

\* a stop without a stop record next to a stop whose arrivals are on the
\* aggregated list
C12_Witness ==
  /\ Processed
  /\ \E i \in StopIndexes : Failing(i) /\ FindStop(staticData, stopCodes[i]) = 0
  /\ Len(combinedArrivals) > 0

\* a stop whose processing threw: the static response has no trips table
C12_ThrowCase ==
  /\ Processed
  /\ \E i \in StopIndexes :
       /\ processingThrows(staticData, parsedRealtimeData, stopCodes[i])
       /\ processedStops[i].error = "Error processing stop"

(* C14: with the static snapshot absent, processing a stop returns an      *)
(* empty list and no error string; with only the real-time snapshot        *)
(* absent, processing a stop that has a stop record and does not throw     *)
(* returns its scheduled arrivals in the window, one per key, each with    *)
(* isRealtime false, pairedEstimate false and delay 0, and no error        *)
(* string.                                                                 *)
C14_SnapshotAbsence ==
  Processed =>
    \A i \in StopIndexes :
      /\ ~staticData.loaded =>
           /\ processedStops[i].arrivals = <<>>
           /\ processedStops[i].error = NoError
      /\ (staticData.loaded /\ ~Failing(i) /\ ~parsedRealtimeData.present) =>
           /\ processedStops[i].error = NoError
           /\ \A a \in Range(processedStops[i].arrivals) :
                /\ a \in Range(BoardStatic(i))
                /\ ~a.isRealtime
                /\ ~a.pairedEstimate
                /\ a.delay = 0
           /\ \A st \in Range(BoardStatic(i)) :
                /\ InWindow(st.arrivalTime, procNow)
                /\ \E a \in Range(processedStops[i].arrivals) : KeyOf(a) = KeyOf(st)

\* no feed was ever decoded and the stop has scheduled arrivals to show
C14_Witness ==
  /\ Processed
  /\ ~parsedRealtimeData.present
  /\ \E i \in StopIndexes :
       /\ Known(stopCodes[i])
       /\ Len(processedStops[i].arrivals) >= 2
       /\ Len(combinedArrivals) >= 2

\* the static snapshot has not arrived while a feed has
C14_NoStaticCase ==
  /\ Processed
  /\ ~staticData.loaded
  /\ parsedRealtimeData.present
  /\ Len(parsedRealtimeData.entity) > 0

(* C20: every row of the final aggregated list has                         *)
(* -1 <= floor((arrivalTime - now) / 60000) <= MAX_ARRIVALS_WINDOW with    *)
(* now read when the aggregation runs, whether the row is a direct         *)
(* real-time arrival, a scheduled arrival or a paired estimate, and        *)
(* however long ago the per-stop results were memoized.                    *)
C20_AggregatedWindow ==
  \A a \in Range(combinedArrivals) :
    /\ ~IsNaN(a.arrivalTime)
    /\ -1 <= MinutesUntil(a.arrivalTime, renderNow)
    /\ MinutesUntil(a.arrivalTime, renderNow) <= MAX_ARRIVALS_WINDOW

\* the aggregation ran later than the memoized processing, on results with
\* a row that has left the window since, and its list holds a direct
\* real-time row, a scheduled row and a paired estimate
C20_Witness ==
  /\ Processed
  /\ renderNow > procNow
  /\ \E i \in StopIndexes : \E a \in Range(processedStops[i].arrivals) :
       ~InWindow(a.arrivalTime, renderNow)
  /\ \E a \in Range(combinedArrivals) : a.isRealtime /\ ~a.pairedEstimate
  /\ \E a \in Range(combinedArrivals) : ~a.isRealtime
  /\ \E a \in Range(combinedArrivals) : a.pairedEstimate

\* the stop_time rows of stop i whose trip is in trips and whose time is set
ScheduledRows(i) ==
  {st \in Range(staticData.stopTimes) :
     /\ st.stop_id = staticData.stops[FindStop(staticData, stopCodes[i])].stop_id
     /\ FindTrip(staticData, st.trip_id) # 0
     /\ st.arrival_time # <<>>}

(* C18: a scheduled stop time HH:MM:SS with HH >= 24 stands for            *)
(* (HH-24):MM:SS on the calendar day after today: a 24:10:00 trip seen at  *)
(* 23:50 is 20 minutes away, and the stop's scheduled candidates hold it   *)
(* with that time.                                                         *)
C18_PostMidnightTimes ==
  Processed =>
    \A i \in StopIndexes :
      (Known(stopCodes[i]) /\ ~Failing(i)) =>
        \A st \in ScheduledRows(i) :
          LET hours == st.arrival_time[1]
              expected == AddDay(DayStart(procNow)) + (hours - 24) * MsPerHour
                            + st.arrival_time[2] * MsPerMinute
                            + st.arrival_time[3] * MsPerSecond
          IN (hours >= 24 /\ InWindow(expected, procNow)) =>
               \E a \in Range(BoardStatic(i)) :
                 /\ a.gtfsTripId = st.trip_id
                 /\ a.arrivalTime = expected

\* the snapshots without their malformed rows: the stop_times whose trip is
\* not in trips, the feed entities whose trip or route is in no static table
StaticWithoutMalformed ==
  [staticData EXCEPT !.stopTimes =
     SelectSeq(@, LAMBDA st : FindTrip(staticData, st.trip_id) # 0)]

MalformedEntity(entity) ==
  \/ FindTrip(staticData, StrOr(entity.tripUpdate.trip.tripId, "Unknown")) = 0
  \/ FindRoute(staticData, StrOr(entity.tripUpdate.trip.routeId, "Unknown")) = 0

FeedWithoutMalformed ==
  [parsedRealtimeData EXCEPT !.entity = SelectSeq(@, LAMBDA entity : ~MalformedEntity(entity))]

\* the malformed real-time updates stop i has to show: at the stop, with a
\* numeric time in the window
MalformedUpdates(i) ==
  {eu \in UNION {{<<e, u>> : u \in 1..Len(parsedRealtimeData.entity[e].tripUpdate.stopTimeUpdate)} :
                    e \in 1..Len(parsedRealtimeData.entity)} :
     /\ MalformedEntity(parsedRealtimeData.entity[eu[1]])
     /\ LET stopUpdate == parsedRealtimeData.entity[eu[1]].tripUpdate.stopTimeUpdate[eu[2]]
            time == OrElse(stopUpdate.arrival.time, stopUpdate.departure.time)
        IN /\ stopUpdate.stopId = staticData.stops[FindStop(staticData, stopCodes[i])].stop_id
           /\ Truthy(time)
           /\ TimesIsNumber(time)
           /\ InWindow(NumericValue(time) * MsPerSecond, procNow)}

(* C19: a scheduled stop_time whose trip is missing from the trips table,  *)
(* and a real-time update whose trip or route is in no static table,       *)
(* contribute no arrival: the stop's result is the one the snapshots       *)
(* without these rows give.                                                *)
C19_MalformedRowsSkipped ==
  Processed =>
    \A i \in StopIndexes :
      (staticData.loaded /\ ~Failing(i)) =>
        processedStops[i] =
          processStopData(StaticWithoutMalformed, FeedWithoutMalformed, stopNames,
                          routePairs, stopCodes[i], procNow)

(* C19 as amended: only the scheduled stop_times whose trip is missing are *)
(* skipped. A real-time update whose trip or route is in no static table   *)
(* is kept: the result holds a direct real-time arrival under the raw      *)
(* route id when the route is missing and under the headsign 'Unknown      *)
(* Destination' when the trip is missing.                                  *)
C19_MalformedStaticRowsSkipped ==
  Processed =>
    \A i \in StopIndexes :
      (staticData.loaded /\ ~Failing(i)) =>
        /\ processedStops[i] =
             processStopData(StaticWithoutMalformed, parsedRealtimeData, stopNames,
                             routePairs, stopCodes[i], procNow)
        /\ \A eu \in MalformedUpdates(i) :
             LET trip == parsedRealtimeData.entity[eu[1]].tripUpdate.trip
                 gtfsRouteId == StrOr(trip.routeId, "Unknown")
                 t == FindTrip(staticData, StrOr(trip.tripId, "Unknown"))
                 route == IF FindRoute(staticData, gtfsRouteId) = 0 THEN gtfsRouteId
                          ELSE RouteShortName(staticData, gtfsRouteId)
                 headsign == IF t = 0 THEN "Unknown Destination"
                             ELSE StrOr(staticData.trips[t].trip_headsign,
                                        "Unknown Destination")
             IN \E a \in Range(processedStops[i].arrivals) :
                  /\ a.routeId = route
                  /\ a.tripId = headsign
                  /\ a.isRealtime
                  /\ ~a.pairedEstimate

\* a stop with a stop_time of a missing trip, a real-time update of a
\* missing trip, and a well-formed scheduled row in its result
C19_Witness ==
  /\ Processed
  /\ \E i \in StopIndexes :
       /\ staticData.loaded /\ ~Failing(i) /\ Known(stopCodes[i])
       /\ \E st \in Range(staticData.stopTimes) :
            /\ st.stop_id = staticData.stops[FindStop(staticData, stopCodes[i])].stop_id
            /\ FindTrip(staticData, st.trip_id) = 0
       /\ MalformedUpdates(i) # {}
       /\ \E a \in Range(processedStops[i].arrivals) : ~a.isRealtime

(* C13: after a poll whose payload cannot be decoded, every arrival of     *)
(* every stop has isRealtime false and connectionError is set, also when   *)
(* an earlier poll had decoded successfully.                               *)
C13_DecodeFailureFallback ==
  connectionError = ParseMessage =>
    /\ \A i \in StopIndexes : \A a \in Range(processedStops[i].arrivals) : ~a.isRealtime
    /\ \A a \in Range(combinedArrivals) : ~a.isRealtime

(* C15: a poll that decodes a feed installs it as the real-time snapshot;  *)
(* it sets the stale flag when the feed's header timestamp is older than   *)
(* 30 minutes and does not set it when the timestamp is at most 30         *)
(* minutes old.                                                            *)
C15_StaleFeed ==
  [][\A feed \in PollFeeds :
       (PollSuccess(feed) /\ ~extractTimestampThrows(feed.header.timestamp)) =>
         LET ageMs == now - extractTimestamp(feed.header.timestamp) * MsPerSecond
         IN /\ parsedRealtimeData' = feed
            /\ ageMs > StaleAfterMinutes * MsPerMinute => connectionError' = StaleMessage
            /\ ageMs <= StaleAfterMinutes * MsPerMinute => connectionError' # StaleMessage]_vars

\* what the poll does: the flag is set when the age in whole minutes
\* exceeds 30 and the timestamp is not the number 0
C15_StaleByWholeMinutes ==
  [][\A feed \in PollFeeds :
       PollSuccess(feed) =>
         /\ parsedRealtimeData' = feed
         /\ connectionError' = StaleMessage <=>
              /\ Truthy(feed.header.timestamp)
              /\ (now - extractTimestamp(feed.header.timestamp) * MsPerSecond) \div MsPerMinute
                   > StaleAfterMinutes]_vars

-----------------------------------------------------------------------------
\* the candidates of a key, and the earliest of a set of candidates
WithKey(cands, key) == {c \in Range(cands) : KeyOf(c) = key}
Earliest(S) == {c \in S : \A d \in S : c.arrivalTime <= d.arrivalTime}

(* C21: with the pairing table empty, the result of a stop holds exactly   *)
(* one entry for each key of its real-time and scheduled candidates and    *)
(* nothing else; the entry is an earliest real-time candidate of the key   *)
(* when there is one, otherwise an earliest scheduled candidate.           *)
C21_MergeReference ==
  (Processed /\ routePairs = ROUTE_PAIRS) =>
    \A i \in StopIndexes :
      LET result == processedStops[i].arrivals
          cands == BoardRealtime(i) \o BoardStatic(i)
      IN (Known(stopCodes[i]) /\ ~Failing(i)) =>
           /\ OnePerKey(result)
           /\ {KeyOf(a) : a \in Range(result)} = {KeyOf(c) : c \in Range(cands)}
           /\ \A a \in Range(result) :
                LET rts == WithKey(BoardRealtime(i), KeyOf(a))
                    sts == WithKey(BoardStatic(i), KeyOf(a))
                IN IF rts # {} THEN a \in Earliest(rts) ELSE a \in Earliest(sts)

\* a key with two real-time candidates of which the second is the earlier,
\* next to a key that only has scheduled candidates
C21_Witness ==
  /\ Processed
  /\ routePairs = ROUTE_PAIRS
  /\ \E i \in StopIndexes :
       /\ \E x, y \in 1..Len(BoardRealtime(i)) :
            /\ x < y
            /\ KeyOf(BoardRealtime(i)[x]) = KeyOf(BoardRealtime(i)[y])
            /\ BoardRealtime(i)[y].arrivalTime < BoardRealtime(i)[x].arrivalTime
       /\ \E st \in Range(BoardStatic(i)) :
            /\ WithKey(BoardRealtime(i), KeyOf(st)) = {}
            /\ st \in Range(processedStops[i].arrivals)

\* the routes with headsign patterns of their own
ConfiguredRoutes == {"8A", "8B", "400"}

\* the arrivals the board and the hook returned for the monitored stops
ProcessedRows ==
  UNION {Range(processedStops[i].arrivals) : i \in StopIndexes}
    \cup UNION {Range(hookStops[i]) : i \in 1..Len(hookStops)}

LastChar(s) == IF Chars(s) = <<>> THEN "" ELSE Chars(s)[Len(Chars(s))]

\* northbound for a trailing 'A', southbound for a trailing 'B'
TrailingLetterDirection(routeId) ==
  IF LastChar(routeId) = "A" THEN "northbound"
  ELSE IF LastChar(routeId) = "B" THEN "southbound"
  ELSE Undefined

(* C22: for a route other than 8A, 8B and 400 the inferred direction is    *)
(* northbound exactly when the route short name ends with 'A', southbound  *)
(* exactly when it ends with 'B', and undefined otherwise, in the rows of  *)
(* the board and of the hook and in inferDirection.                        *)
C22_OtherRouteDirection ==
  Processed =>
    \A a \in ProcessedRows :
      a.routeId \notin ConfiguredRoutes =>
        /\ a.direction = TrailingLetterDirection(a.routeId)
        /\ inferDirection(a.routeId, a.tripId) = TrailingLetterDirection(a.routeId)

\* what the direction blocks do: an 'a' or 'A' anywhere in the short name
\* gives northbound, otherwise a 'b' or 'B' anywhere gives southbound
C22_AnyLetterDirection ==
  Processed =>
    \A a \in ProcessedRows :
      a.routeId \notin ConfiguredRoutes =>
        a.direction = IF Contains(Lower(Chars(a.routeId)), <<"a">>) THEN "northbound"
                      ELSE IF Contains(Lower(Chars(a.routeId)), <<"b">>) THEN "southbound"
                      ELSE Undefined

\* the first matching headsign pattern of a configured route
HeadsignDirection(routeId, headsign) ==
  CASE routeId \in {"8A", "8B"} ->
         IF TestI(headsign, PatToGeorgianCollege) THEN "northbound"
         ELSE IF TestI(headsign, PatToParkPlace)
                 \/ TestI(headsign, PatToDowntownBarrieTerminal) THEN "southbound"
         ELSE Undefined
    [] routeId = "400" ->
         IF TestI(headsign, PatNorth) \/ TestI(headsign, PatGeorgianMall) THEN "northbound"
         ELSE IF TestI(headsign, PatSouth) \/ TestI(headsign, PatParkPlace)
                 \/ TestI(headsign, PatDowntownBarrieTerminal) THEN "southbound"
         ELSE Undefined

(* C23: for the routes 8A, 8B and 400 the first matching headsign pattern  *)
(* decides the direction and a headsign that matches no pattern of the     *)
(* route gives undefined, in the helper of TransitBoard, in inferDirection *)
(* and in the rows of the board and of the hook.                           *)
C23_ConfiguredRouteDirection ==
  Processed =>
    \A a \in ProcessedRows :
      a.routeId \in ConfiguredRoutes =>
        /\ a.direction = HeadsignDirection(a.routeId, a.tripId)
        /\ infer8Direction(a.routeId, a.tripId) = HeadsignDirection(a.routeId, a.tripId)
        /\ inferDirection(a.routeId, a.tripId) = HeadsignDirection(a.routeId, a.tripId)

\* the same statement of the board's rows and helper alone
C23_BoardConfiguredRouteDirection ==
  Processed =>
    \A i \in StopIndexes : \A a \in Range(processedStops[i].arrivals) :
      a.routeId \in ConfiguredRoutes =>
        /\ a.direction = HeadsignDirection(a.routeId, a.tripId)
        /\ infer8Direction(a.routeId, a.tripId) = HeadsignDirection(a.routeId, a.tripId)

\* the real-time arrivals a scheduled arrival may be paired with once the
\* opposite-direction search has found nothing: on the paired route, at the
\* same stop, of the scheduled arrival's direction when it has one
FallbackCandidates(st, rts, pairRoute) ==
  {j \in 1..Len(rts) :
     /\ rts[j].routeId = pairRoute
     /\ rts[j].stopCode = st.stopCode
     /\ (st.direction # Undefined => rts[j].direction = st.direction)}

\* the scheduled arrival has a paired route, no real-time arrival of its own
\* key, and no real-time arrival of the opposite direction to prefer
FallbackCase(st, merged, rts, pairRoute) ==
  /\ pairRoute # Undefined
  /\ \A m \in Range(merged) : m.key = makeKey(st) => ~m.val.isRealtime
  /\ (st.routeId \in ConfiguredRoutes /\ st.direction # Undefined) =>
       ~\E rt \in Range(rts) :
          /\ rt.routeId = pairRoute
          /\ rt.stopCode = st.stopCode
          /\ rt.direction = Opposite(st.direction)

FallbackResult(arrivals, st, merged, rts, pairRoute) ==
  LET cands == FallbackCandidates(st, rts, pairRoute)
  IN \A e \in Range(arrivals) :
       KeyOf(e) = KeyOf(st) =>
         IF cands # {}
           THEN /\ e.isRealtime
                /\ e.pairedEstimate
                /\ e.arrivalTime = rts[MinOf(cands)].arrivalTime
                /\ e.delay = rts[MinOf(cands)].delay
           ELSE /\ ~e.isRealtime
                /\ ~e.pairedEstimate
                /\ \E m \in Range(merged) : m.key = makeKey(st) /\ m.val = e

(* C24: when no real-time arrival of the opposite direction is found, the  *)
(* entry of a scheduled arrival with a paired route takes the time and     *)
(* delay of the first real-time arrival on the paired route at the same    *)
(* stop whose direction equals its own (of any direction when it has       *)
(* none); when there is no such arrival the entry stays the scheduled      *)
(* arrival, isRealtime = false and pairedEstimate = false. Board and hook. *)
C24_PairingFallback ==
  Processed =>
    \A i \in StopIndexes :
      /\ \A st \in Range(BoardStatic(i)) :
           LET pairRoute == findPairedRoute(routePairs, st.routeId)
               merged == boardMerge(BoardStatic(i), BoardRealtime(i))
           IN FallbackCase(st, merged, BoardRealtime(i), pairRoute)
                => FallbackResult(processedStops[i].arrivals, st, merged,
                                  BoardRealtime(i), pairRoute)
      /\ \A st \in Range(HookStatic(i)) :
           LET pairRoute == findPairedRoute(routePairs, st.routeId)
               merged == hookMerge(HookStatic(i), HookRealtime(i))
           IN FallbackCase(st, merged, HookRealtime(i), pairRoute)
                => FallbackResult(hookStops[i], st, merged, HookRealtime(i), pairRoute)

\* a scheduled arrival with a direction, two real-time arrivals of that
\* direction on the paired route, and the entry taken from the first
C24_Witness ==
  /\ Processed
  /\ \E i \in StopIndexes : \E st \in Range(BoardStatic(i)) :
       LET pairRoute == findPairedRoute(routePairs, st.routeId)
           merged == boardMerge(BoardStatic(i), BoardRealtime(i))
           cands == FallbackCandidates(st, BoardRealtime(i), pairRoute)
       IN /\ FallbackCase(st, merged, BoardRealtime(i), pairRoute)
          /\ st.direction # Undefined
          /\ Cardinality(cands) = 2
          /\ \E e \in Range(processedStops[i].arrivals) :
               /\ KeyOf(e) = KeyOf(st)
               /\ e.pairedEstimate
               /\ e.arrivalTime = BoardRealtime(i)[MinOf(cands)].arrivalTime
               /\ \E j \in cands : BoardRealtime(i)[j].arrivalTime # e.arrivalTime

\* a scheduled arrival without a direction paired with a real-time arrival
\* that has one
C24_NoDirectionWitness ==
  /\ Processed
  /\ \E i \in StopIndexes : \E st \in Range(BoardStatic(i)) :
       LET pairRoute == findPairedRoute(routePairs, st.routeId)
           merged == boardMerge(BoardStatic(i), BoardRealtime(i))
           cands == FallbackCandidates(st, BoardRealtime(i), pairRoute)
       IN /\ FallbackCase(st, merged, BoardRealtime(i), pairRoute)
          /\ st.direction = Undefined
          /\ cands # {}
          /\ BoardRealtime(i)[MinOf(cands)].direction # Undefined
          /\ \E e \in Range(processedStops[i].arrivals) :
               KeyOf(e) = KeyOf(st) /\ e.pairedEstimate

\* a scheduled arrival that stays scheduled although the paired route has a
\* real-time arrival at the stop, of no direction
C24_NoneWitness ==
  /\ Processed
  /\ \E i \in StopIndexes : \E st \in Range(BoardStatic(i)) :
       LET pairRoute == findPairedRoute(routePairs, st.routeId)
           merged == boardMerge(BoardStatic(i), BoardRealtime(i))
       IN /\ FallbackCase(st, merged, BoardRealtime(i), pairRoute)
          /\ FallbackCandidates(st, BoardRealtime(i), pairRoute) = {}
          /\ \E rt \in Range(BoardRealtime(i)) : rt.routeId = pairRoute
          /\ \E e \in Range(processedStops[i].arrivals) :
               KeyOf(e) = KeyOf(st) /\ ~e.isRealtime /\ ~e.pairedEstimate

\* what the claim compares of an arrival: its key, time, delay and flags
Essentials(a) ==
  [key |-> KeyOf(a), arrivalTime |-> a.arrivalTime, delay |-> a.delay,
   isRealtime |-> a.isRealtime, pairedEstimate |-> a.pairedEstimate]

EssentialSet(arrivals) == {Essentials(arrivals[j]) : j \in 1..Len(arrivals)}

(* C25: for the same static snapshot, feed, stop names, stop code and      *)
(* clock the hook's processStop returns the same set of arrivals (keys,    *)
(* times, delays, isRealtime and pairedEstimate) as processStopData.       *)
C25_HookRefinesBoard ==
  Processed =>
    \A i \in StopIndexes :
      EssentialSet(hookStops[i]) = EssentialSet(processedStops[i].arrivals)

\* no arrival or departure time of the feed is a {low, high} object
NoPairTimes ==
  \A e \in Range(parsedRealtimeData.entity) :
    \A u \in Range(e.tripUpdate.stopTimeUpdate) :
      u.arrival.time.kind # "pair" /\ u.departure.time.kind # "pair"

\* every row is of a trip that has a headsign
AllHeadsignsKnown ==
  \A a \in ProcessedRows : a.tripId \notin {"Unknown", "Unknown Destination"}

\* the same statement for the shipped pair table, feeds whose times are
\* numbers or Long values and trips that all have a headsign
C25_HookRefinesBoardPlainInputs ==
  (Processed /\ routePairs = ROUTE_PAIRS /\ NoPairTimes /\ AllHeadsignsKnown) =>
    \A i \in StopIndexes :
      EssentialSet(hookStops[i]) = EssentialSet(processedStops[i].arrivals)

\* a step in which per-stop processing or aggregation ran
ProcessingStep ==
  \/ processedStops' # processedStops
  \/ combinedArrivals' # combinedArrivals
  \/ hookStops' # hookStops
  \/ procNow' # procNow
  \/ renderNow' # renderNow

(* C26: per-stop processing and aggregation leave the static tables, the   *)
(* decoded feed and the monitored stop-code list as they were.             *)
C26_InputsReadOnly ==
  [][ProcessingStep => UNCHANGED <<staticData, parsedRealtimeData, stopCodes>>]_vars

\* processing and aggregation have run on two stop_times rows and a feed and
\* produced arrivals
C26_Witness ==
  /\ Processed
  /\ combinedArrivals # <<>>
  /\ Len(staticData.stopTimes) = 2
  /\ staticData.stopTimes[1] # staticData.stopTimes[2]
  /\ parsedRealtimeData.present
  /\ parsedRealtimeData.entity # <<>>

(* C28: a removal sticks. After the Remove button of a code, or Start      *)
(* Fresh, has been handled the code is not in the monitored list, also     *)
(* when the debounced input value still holds the code.                    *)
C28_RemovalSticks ==
  [][/\ \A code \in RemovableCodes :
          handleRemoveStop(code) => ~SeqIncludes(stopCodes', code)
     /\ StartFresh => stopCodes' = <<>>]_vars

\* the same statement for the removal of a code that the debounced value
\* does not hold
C28_RemovalOfOtherCodeSticks ==
  [][\A code \in RemovableCodes :
       (handleRemoveStop(code) /\ Trim(debouncedStopCode) # code)
         => ~SeqIncludes(stopCodes', code)]_vars

\* the case of a removal within the debounce delay after an auto-add: the
\* field has been cleared and the debounced value still holds the code
C28_RemovalAfterAutoAddSticks ==
  [][\A code \in RemovableCodes :
       (handleRemoveStop(code) /\ newStopCode = "" /\ Trim(debouncedStopCode) = code)
         => ~SeqIncludes(stopCodes', code)]_vars

(* C27: under any interleaving of form-submit add, debounced auto-add,     *)
(* remove, start-fresh and load-configuration events the monitored stop    *)
(* list never contains the same stop code twice.                           *)
C27_NoDuplicateStopCodes ==
  \A x, y \in 1..Len(stopCodes) : x # y => stopCodes[x] # stopCodes[y]

\* the same statement of the states in which no effect was overtaken by an
\* event: every step of the page's own specification
C27_NoDuplicatesWhenEffectsRunFirst ==
  [][(~pendingEffect.pending /\ C27_NoDuplicateStopCodes) => C27_NoDuplicateStopCodes']_vars

\* the scheduled arrivals: neither real-time nor paired estimates
Scheduled(a) == ~a.isRealtime /\ ~a.pairedEstimate

(* C29: every scheduled arrival the scheduled-arrival builder emits, and   *)
(* every scheduled entry of the per-stop result, has arrivalTime >= the    *)
(* builder's now; none has minutesUntilArrival = -1.                       *)
C29_ScheduledNotInThePast ==
  Processed =>
    \A i \in StopIndexes :
      \A a \in Range(BoardStatic(i)) \cup Range(processedStops[i].arrivals) :
        Scheduled(a) =>
          /\ a.arrivalTime >= procNow
          /\ MinutesUntil(a.arrivalTime, procNow) >= 0

\* a stop_times row of a monitored stop whose time of day passed less than a
\* minute before the builder's now was moved to the next day and not emitted
C29_Witness ==
  /\ Processed
  /\ \E i \in StopIndexes : \E st \in Range(staticData.stopTimes) :
       LET timeStr == IF st.arrival_time # <<>> THEN st.arrival_time ELSE st.departure_time
           today == setHours(procNow, timeStr[1], timeStr[2], timeStr[3])
       IN /\ Known(stopCodes[i])
          /\ st.stop_id = staticData.stops[FindStop(staticData, stopCodes[i])].stop_id
          /\ FindTrip(staticData, st.trip_id) # 0
          /\ timeStr # <<>>
          /\ today < procNow
          /\ MinutesUntil(today, procNow) = -1
          /\ \A a \in Range(BoardStatic(i)) : a.gtfsTripId # st.trip_id

\* a step in which a GET whose upstream fetch failed is answered
FailedFetchStep == \E startNow \in requests : FetchFails(startNow)

\* a payload served without stale = true was delivered by the upstream less
\* than CACHE_DURATION before the response
ServedFresh ==
  (response.kind \in {"cached", "fresh"}) =>
    /\ response.success
    /\ ~response.stale
    /\ response.at - response.data.payload < CACHE_DURATION
    /\ response.at - response.data.payload >= 0

(* C30: a failed upstream fetch leaves the cache entry, payload and expiry, *)
(* unchanged; its GET answers success = false exactly when no payload is   *)
(* cached and otherwise the cached payload marked stale; every GET that    *)
(* answers success = false found no payload cached; a payload served       *)
(* without stale = true was fetched less than 30 seconds before.           *)
C30_CacheUnderFailure ==
  /\ []ServedFresh
  /\ [][FailedFetchStep =>
          /\ realtimeCache' = realtimeCache
          /\ response'.success = realtimeCache.present
          /\ realtimeCache.present =>
               /\ response'.stale
               /\ response'.data = realtimeCache.data]_vars
  /\ [][(response' # response /\ response'.kind # "cleared" /\ ~response'.success)
          => ~realtimeCache.present]_vars

\* a GET that started after the entry had expired failed while another GET's
\* payload was cached, and was answered with that payload, marked stale
C30_Witness ==
  /\ response.kind = "stale"
  /\ response.stale
  /\ realtimeCache.present
  /\ response.data = realtimeCache.data
  /\ response.at >= realtimeCache.expiresAt

\* a GET answered success = false after DELETE had cleared a cached payload
C30_ClearedWitness ==
  /\ response.kind = "error"
  /\ ~response.success
  /\ ~realtimeCache.present
  /\ now > Now0
====
